---- MODULE Spec2Model ----
(***************************************************************************)
(* RecipeApp: the Database singleton of database.cpp over SQLite.          *)
(* A collection is one database file: the tables recipes, ingredients,     *)
(* tags, recipe_ingredients, recipe_tags, instructions, the FTS5 table     *)
(* search kept by triggers, and sqlite_sequence (AUTOINCREMENT).           *)
(* Text values are sequences of one-character strings.                     *)
(***************************************************************************)
EXTENDS Integers, Sequences, FiniteSets, TLC

VARIABLES files, is_db_open_, db_path_, txn, attached, ever_recipe_ids,
          called, last

vars == <<files, is_db_open_, db_path_, txn, attached, ever_recipe_ids,
          called, last>>

(***************************************************************************)
(* Bounds of the model.                                                    *)
(***************************************************************************)
MaxRecipes == 2
MaxSeq == 2
MaxVocabSeq == 3

Paths == {"main.db", "other.db"}

(***************************************************************************)
(* Text.                                                                   *)
(***************************************************************************)
\* Characters of the model in ascending byte order (BINARY collation).
Alphabet == <<"\n", " ", "1", "2", "3", "A", "M", "P", "T", "a", "b", "m", "p", "q", "s", "t", "u", "|">>
UpperChars == <<"A", "M", "P", "T">>
LowerChars == <<"a", "m", "p", "t">>

CharCode(c) == CHOOSE i \in 1..Len(Alphabet) : Alphabet[i] = c

\* SQL lower(): ASCII upper-case letters are folded, every other byte is kept.
LowerChar(c) ==
    IF \E i \in 1..Len(UpperChars) : UpperChars[i] = c
    THEN LowerChars[CHOOSE i \in 1..Len(UpperChars) : UpperChars[i] = c]
    ELSE c

lower(s) == [i \in 1..Len(s) |-> LowerChar(s[i])]

IsAlnum(c) == c \notin {"\n", " ", "|", "NUL"}

\* memcmp order of two texts.
RECURSIVE StrLess(_, _)
StrLess(a, b) ==
    IF a = <<>> THEN b # <<>>
    ELSE IF b = <<>> THEN FALSE
    ELSE IF a[1] = b[1] THEN StrLess(Tail(a), Tail(b))
    ELSE CharCode(a[1]) < CharCode(b[1])

\* SQL NULL in a text column.
Null == <<"NUL">>

\* group_concat(x, delim) over the rows in the given order; NULL when there is no row.
RECURSIVE JoinFrom(_, _, _)
JoinFrom(strs, delim, i) ==
    IF i > Len(strs) THEN <<>>
    ELSE IF i = Len(strs) THEN strs[i]
    ELSE strs[i] \o <<delim>> \o JoinFrom(strs, delim, i + 1)

group_concat(strs, delim) == IF strs = <<>> THEN Null ELSE JoinFrom(strs, delim, 1)

COALESCE(v, dflt) == IF v = Null THEN dflt ELSE v

\* The successive results of std::getline(ss, token, delimiter) on str.
RECURSIVE getlines(_, _, _)
getlines(str, delimiter, cur) ==
    IF str = <<>> THEN (IF cur = <<>> THEN <<>> ELSE <<cur>>)
    ELSE IF str[1] = delimiter THEN <<cur>> \o getlines(Tail(str), delimiter, <<>>)
    ELSE getlines(Tail(str), delimiter, Append(cur, str[1]))

splitString(str, delimiter) ==
    SelectSeq(getlines(str, delimiter, <<>>), LAMBDA token : token # <<>>)

(***************************************************************************)
(* Sets and sequences.                                                     *)
(***************************************************************************)
SetMax(S) == IF S = {} THEN 0 ELSE CHOOSE m \in S : \A x \in S : x <= m

Range(f) == {f[i] : i \in DOMAIN f}

\* The integers of S in ascending order.
RECURSIVE SortInts(_)
SortInts(S) ==
    IF S = {} THEN <<>>
    ELSE LET m == CHOOSE x \in S : \A y \in S : x <= y
         IN <<m>> \o SortInts(S \ {m})

\* The texts of a sequence in ascending memcmp order (ORDER BY name), duplicates kept.
RECURSIVE SortStrs(_)
SortStrs(strs) ==
    IF strs = <<>> THEN <<>>
    ELSE LET k == CHOOSE i \in 1..Len(strs) :
                    \A j \in 1..Len(strs) : ~StrLess(strs[j], strs[i])
         IN <<strs[k]>> \o SortStrs([i \in 1..(Len(strs) - 1) |->
                                        IF i < k THEN strs[i] ELSE strs[i + 1]])

(***************************************************************************)
(* A collection (one database file).                                       *)
(***************************************************************************)
NoSchema ==
    [schema |-> FALSE, recipes |-> {}, ingredients |-> {}, tags |-> {},
     recipe_ingredients |-> {}, recipe_tags |-> {}, instructions |-> {},
     search |-> {}, sqlite_sequence |-> [recipes |-> 0, ingredients |-> 0, tags |-> 0]]

NoTxn == [open |-> FALSE, snapshot |-> NoSchema]

\* AUTOINCREMENT: one more than the largest rowid ever held by the table.
NextRowid(rows_ids, seq) == SetMax(rows_ids \cup {seq}) + 1

RecipeIds(db) == {r.recipe_id : r \in db.recipes}

\* Names linked to a recipe, in the order of the primary key (recipe_id, ingredient_id).
IngredientName(db, iid) == (CHOOSE i \in db.ingredients : i.ingredient_id = iid).name
TagName(db, tid) == (CHOOSE t \in db.tags : t.tag_id = tid).name

LinkedIngredientIds(db, rid) ==
    SortInts({l.ingredient_id : l \in {x \in db.recipe_ingredients : x.recipe_id = rid}})
LinkedTagIds(db, rid) ==
    SortInts({l.tag_id : l \in {x \in db.recipe_tags : x.recipe_id = rid}})

LinkedIngredientNames(db, rid) ==
    LET ids == LinkedIngredientIds(db, rid)
    IN [k \in 1..Len(ids) |-> IngredientName(db, ids[k])]
LinkedTagNames(db, rid) ==
    LET ids == LinkedTagIds(db, rid)
    IN [k \in 1..Len(ids) |-> TagName(db, ids[k])]

(***************************************************************************)
(* Triggers that maintain the FTS5 table search.                           *)
(***************************************************************************)
\* recipe_after_insert: INSERT OR REPLACE INTO search(rowid, name, description, author).
recipe_after_insert(db, r) ==
    [db EXCEPT !.search =
        {s \in @ : s.rowid # r.recipe_id} \cup
        {[rowid |-> r.recipe_id, name |-> r.name, description |-> r.description,
          author |-> r.author, ingredients |-> Null, tags |-> Null]}]

\* update_ingredients_on_insert / update_ingredients_on_delete.
update_ingredients(db, rid) ==
    [db EXCEPT !.search =
        {IF s.rowid = rid
         THEN [s EXCEPT !.ingredients =
                  COALESCE(group_concat(LinkedIngredientNames(db, rid), "|"), <<>>)]
         ELSE s : s \in @}]

\* update_tags_on_insert / update_tags_on_delete.
update_tags(db, rid) ==
    [db EXCEPT !.search =
        {IF s.rowid = rid
         THEN [s EXCEPT !.tags = COALESCE(group_concat(LinkedTagNames(db, rid), "|"), <<>>)]
         ELSE s : s \in @}]

\* recipe_after_delete.
recipe_after_delete(db, rid) ==
    [db EXCEPT !.search = {s \in @ : s.rowid # rid}]

(***************************************************************************)
(* open / close / initialize.                                              *)
(***************************************************************************)
RECURSIVE Repeat(_, _)
Repeat(x, n) == IF n <= 0 THEN <<>> ELSE <<x>> \o Repeat(x, n - 1)

RECURSIVE RepeatEach(_, _)
RepeatEach(strs, n) ==
    IF strs = <<>> THEN <<>> ELSE Repeat(strs[1], n) \o RepeatEach(Tail(strs), n)

RECURSIVE RepeatAll(_, _)
RepeatAll(strs, n) == IF n <= 0 THEN <<>> ELSE strs \o RepeatAll(strs, n - 1)

\* The row that the INSERT OR REPLACE INTO search ... GROUP BY r.recipe_id of
\* initialize() writes for one recipe: the LEFT JOINs pair every ingredient link
\* with every tag link of the recipe.
RebuiltSearchRow(db, r) ==
    LET ings == LinkedIngredientNames(db, r.recipe_id)
        tgs  == LinkedTagNames(db, r.recipe_id)
        ni   == IF Len(ings) = 0 THEN 1 ELSE Len(ings)
        nt   == IF Len(tgs) = 0 THEN 1 ELSE Len(tgs)
    IN [rowid |-> r.recipe_id, name |-> r.name, description |-> r.description,
        author |-> r.author,
        ingredients |-> COALESCE(group_concat(RepeatEach(ings, nt), "|"), <<>>),
        tags |-> COALESCE(group_concat(RepeatAll(tgs, ni), "|"), <<>>)]

\* Database::initialize: creates the schema when absent and rewrites the search
\* row of every recipe.
initialize(db) ==
    [db EXCEPT !.schema = TRUE,
               !.search = {s \in @ : s.rowid \notin RecipeIds(db)} \cup
                          {RebuiltSearchRow(db, r) : r \in db.recipes}]

\* executeSQL("ROLLBACK;"): the connection sees the snapshot taken at BEGIN again.
ROLLBACK(snapshot, working) == snapshot

(***************************************************************************)
(* addRecipe and its helpers.                                              *)
(***************************************************************************)
getOrCreateIngredientId(db, name) ==
    IF name = <<>> THEN [id |-> -1, db |-> db]
    ELSE IF \E i \in db.ingredients : i.name = name
    THEN [id |-> (CHOOSE i \in db.ingredients : i.name = name).ingredient_id, db |-> db]
    ELSE LET id == NextRowid({i.ingredient_id : i \in db.ingredients},
                             db.sqlite_sequence.ingredients)
         IN [id |-> id,
             db |-> [db EXCEPT !.ingredients = @ \cup {[ingredient_id |-> id, name |-> name]},
                               !.sqlite_sequence.ingredients = id]]

getOrCreateTagId(db, name) ==
    IF name = <<>> THEN [id |-> -1, db |-> db]
    ELSE IF \E t \in db.tags : t.name = name
    THEN [id |-> (CHOOSE t \in db.tags : t.name = name).tag_id, db |-> db]
    ELSE LET id == NextRowid({t.tag_id : t \in db.tags}, db.sqlite_sequence.tags)
         IN [id |-> id,
             db |-> [db EXCEPT !.tags = @ \cup {[tag_id |-> id, name |-> name]},
                               !.sqlite_sequence.tags = id]]

\* stepFails: the storage engine reports an error on the INSERT of the link.
linkIngredientToRecipe(db, recipe_id, ingredient, stepFails) ==
    IF recipe_id <= 0 \/ ingredient.name = <<>> THEN [ok |-> FALSE, db |-> db]
    ELSE LET g == getOrCreateIngredientId(db, ingredient.name)
         IN IF g.id = -1 THEN [ok |-> FALSE, db |-> g.db]
            ELSE IF stepFails
                    \/ \E l \in g.db.recipe_ingredients :
                          l.recipe_id = recipe_id /\ l.ingredient_id = g.id
            THEN [ok |-> FALSE, db |-> g.db]
            ELSE [ok |-> TRUE,
                  db |-> update_ingredients(
                            [g.db EXCEPT !.recipe_ingredients = @ \cup
                                {[recipe_id |-> recipe_id, ingredient_id |-> g.id,
                                  quantity |-> ingredient.quantity, unit |-> ingredient.unit,
                                  notes |-> ingredient.notes,
                                  optional |-> ingredient.optional]}],
                            recipe_id)]

linkTagToRecipe(db, recipe_id, tag, stepFails) ==
    IF recipe_id <= 0 \/ tag = <<>> THEN [ok |-> FALSE, db |-> db]
    ELSE LET g == getOrCreateTagId(db, tag)
         IN IF g.id = -1 THEN [ok |-> FALSE, db |-> g.db]
            ELSE IF stepFails
                    \/ \E l \in g.db.recipe_tags : l.recipe_id = recipe_id /\ l.tag_id = g.id
            THEN [ok |-> FALSE, db |-> g.db]
            ELSE [ok |-> TRUE,
                  db |-> update_tags(
                            [g.db EXCEPT !.recipe_tags = @ \cup
                                {[recipe_id |-> recipe_id, tag_id |-> g.id]}],
                            recipe_id)]

addInstruction(db, recipe_id, step_number, instruction, stepFails) ==
    IF recipe_id <= 0 \/ step_number <= 0 \/ instruction = <<>> THEN [ok |-> FALSE, db |-> db]
    ELSE IF stepFails
            \/ \E x \in db.instructions :
                  x.recipe_id = recipe_id /\ x.step_number = step_number
    THEN [ok |-> FALSE, db |-> db]
    ELSE [ok |-> TRUE,
          db |-> [db EXCEPT !.instructions = @ \cup
                     {[recipe_id |-> recipe_id, step_number |-> step_number,
                       instruction |-> instruction]}]]

\* The three loops of addRecipe; each stops at the first failure.
RECURSIVE linkIngredients(_, _, _, _, _)
linkIngredients(db, recipe_id, ingredients, k, stepFails) ==
    IF k > Len(ingredients) THEN [ok |-> TRUE, db |-> db]
    ELSE LET r == linkIngredientToRecipe(db, recipe_id, ingredients[k], stepFails /\ k = 1)
         IN IF ~r.ok THEN r
            ELSE linkIngredients(r.db, recipe_id, ingredients, k + 1, stepFails)

RECURSIVE linkTags(_, _, _, _, _)
linkTags(db, recipe_id, tags, k, stepFails) ==
    IF k > Len(tags) THEN [ok |-> TRUE, db |-> db]
    ELSE LET r == linkTagToRecipe(db, recipe_id, tags[k], stepFails /\ k = 1)
         IN IF ~r.ok THEN r
            ELSE linkTags(r.db, recipe_id, tags, k + 1, stepFails)

RECURSIVE addInstructions(_, _, _, _, _)
addInstructions(db, recipe_id, instructions, i, stepFails) ==
    IF i >= Len(instructions) THEN [ok |-> TRUE, db |-> db]
    ELSE LET r == addInstruction(db, recipe_id, i + 1, instructions[i + 1], stepFails /\ i = 0)
         IN IF ~r.ok THEN r
            ELSE addInstructions(r.db, recipe_id, instructions, i + 1, stepFails)

\* INSERT INTO recipes (...) VALUES (...), with its trigger.
insertRecipe(db, recipe, now) ==
    LET id  == NextRowid(RecipeIds(db), db.sqlite_sequence.recipes)
        row == [recipe_id |-> id, name |-> recipe.name, description |-> recipe.description,
                prep_time_minutes |-> recipe.prep_time_minutes,
                cook_time_minutes |-> recipe.cook_time_minutes,
                servings |-> recipe.servings, is_favorite |-> recipe.is_favorite,
                date_added |-> now, source |-> recipe.source,
                source_url |-> recipe.source_url, author |-> recipe.author]
    IN [id |-> id,
        db |-> recipe_after_insert(
                  [db EXCEPT !.recipes = @ \cup {row}, !.sqlite_sequence.recipes = id], row)]

\* A failure exit that returns -1 without ROLLBACK.
addRecipeFailedNoRollback(snapshot, working, stage) ==
    [ret |-> -1, db |-> working, stage |-> stage]

\* The failure exits of addRecipe that follow BEGIN: ROLLBACK, then return -1.
addRecipeFailed(snapshot, working, stage) ==
    [ret |-> -1, db |-> ROLLBACK(snapshot, working), stage |-> stage]

\* Database::addRecipe on the open connection; inTxn: a transaction is already
\* open on the connection; fault: the statement on which the engine fails.
\* stage: the statement at which the call gave up ("done": it committed).
addRecipe(db, inTxn, recipe, now, fault) ==
    IF recipe.name = <<>> THEN [ret |-> -1, db |-> db, stage |-> "name"]
    ELSE IF inTxn \/ fault = "begin" THEN [ret |-> -1, db |-> db, stage |-> "begin"]
    ELSE IF fault = "recipe" THEN addRecipeFailed(db, db, "recipe")
    ELSE LET ins == insertRecipe(db, recipe, now)
             li  == linkIngredients(ins.db, ins.id, recipe.ingredients, 1,
                                    fault = "ingredient")
             lt  == linkTags(li.db, ins.id, recipe.tags, 1, fault = "tag")
             ai  == addInstructions(lt.db, ins.id, recipe.instructions, 0,
                                    fault = "instruction")
         IN IF ~li.ok THEN addRecipeFailed(db, li.db, "ingredient")
            ELSE IF ~lt.ok THEN addRecipeFailed(db, lt.db, "tag")
            ELSE IF ~ai.ok THEN addRecipeFailed(db, ai.db, "instruction")
            ELSE IF fault = "commit" THEN addRecipeFailed(db, ai.db, "commit")
            ELSE [ret |-> ins.id, db |-> ai.db, stage |-> "done"]

(***************************************************************************)
(* getRecipeById.                                                          *)
(***************************************************************************)
Digits == <<"0", "1", "2", "3", "4", "5", "6", "7", "8", "9">>

DigitValue(c) == (CHOOSE d \in 1..Len(Digits) : Digits[d] = c) - 1

\* The text SQLite gives for a REAL column holding a whole number: "1.0".
RealText(quantity) == <<Digits[quantity + 1], ".", "0">>

\* std::stod on a token, the catch of getIngredientInfo included: the value of
\* the leading digit (model quantities are whole and below ten), 0 when the
\* token does not start with a number.
stod(token) ==
    IF token # <<>> /\ token[1] \in Range(Digits) THEN DigitValue(token[1]) ELSE 0

\* One row of ingredient_list: name|quantity|unit|notes|optional.
IngredientLine(db, l) ==
    IngredientName(db, l.ingredient_id) \o <<"|">> \o RealText(l.quantity) \o <<"|">> \o
    l.unit \o <<"|">> \o l.notes \o <<"|">> \o (IF l.optional THEN <<"1">> ELSE <<"0">>)

\* ingredient_list of the SELECT of getRecipeById.
ingredient_list(db, rid) ==
    LET ids == LinkedIngredientIds(db, rid)
        link(iid) == CHOOSE l \in db.recipe_ingredients :
                        l.recipe_id = rid /\ l.ingredient_id = iid
    IN COALESCE(group_concat([k \in 1..Len(ids) |-> IngredientLine(db, link(ids[k]))],
                             "\n"), <<>>)

tag_list(db, rid) == COALESCE(group_concat(LinkedTagNames(db, rid), "|"), <<>>)

\* instruction_list: the rows of the recipe in the order of the index on
\* (recipe_id, step_number).
instruction_list(db, rid) ==
    LET steps == SortInts({x.step_number : x \in {y \in db.instructions : y.recipe_id = rid}})
        text(n) == (CHOOSE x \in db.instructions :
                       x.recipe_id = rid /\ x.step_number = n).instruction
    IN COALESCE(group_concat([k \in 1..Len(steps) |-> text(steps[k])], "|"), <<>>)

\* getIngredientInfo: five std::getline calls on one stream. A call that fails
\* because the stream has ended leaves token as the call before left it; the
\* first call that finds nothing after a final delimiter clears it. quantity is
\* written only when the second call succeeds: uninitialized otherwise.
getIngredientInfo(ingredient_str, uninitialized) ==
    LET tokens == getlines(ingredient_str, "|", <<>>)
        n == Len(tokens)
        token(k) == IF k <= n THEN tokens[k]
                    ELSE IF n = 0 \/ ingredient_str[Len(ingredient_str)] = "|" THEN <<>>
                    ELSE tokens[n]
    IN [name |-> token(1),
        quantity |-> IF 2 <= n THEN stod(tokens[2]) ELSE uninitialized,
        unit |-> token(3),
        notes |-> token(4),
        optional |-> token(5) = <<"1">>]

parseAllIngredients(all_ingredients_str, uninitialized) ==
    LET lines == splitString(all_ingredients_str, "\n")
    IN [k \in 1..Len(lines) |-> getIngredientInfo(lines[k], uninitialized)]

\* A getRecipeById that does not look at the result of sqlite3_step: with no
\* row it returns a RecipeData whose fields were never filled.
getRecipeByIdNoRowCheck(db, open, recipe_id, uninitialized) ==
    IF ~open \/ recipe_id <= 0 THEN <<>>
    ELSE IF recipe_id \notin RecipeIds(db)
    THEN << [name |-> <<>>, description |-> <<>>, prep_time_minutes |-> 0,
             cook_time_minutes |-> 0, servings |-> 0, is_favorite |-> FALSE,
             source |-> <<>>, source_url |-> <<>>, author |-> <<>>,
             ingredients |-> <<>>, tags |-> <<>>, instructions |-> <<>>] >>
    ELSE LET r == CHOOSE x \in db.recipes : x.recipe_id = recipe_id
         IN << [name |-> r.name, description |-> r.description,
                prep_time_minutes |-> r.prep_time_minutes,
                cook_time_minutes |-> r.cook_time_minutes,
                servings |-> r.servings, is_favorite |-> r.is_favorite,
                source |-> r.source, source_url |-> r.source_url, author |-> r.author,
                ingredients |-> parseAllIngredients(ingredient_list(db, recipe_id),
                                                    uninitialized),
                tags |-> splitString(tag_list(db, recipe_id), "|"),
                instructions |-> splitString(instruction_list(db, recipe_id), "|")] >>

\* Database::getRecipeById: the empty sequence for std::nullopt, else the one
\* RecipeData read back.
getRecipeById(db, open, recipe_id, uninitialized) ==
    IF ~open \/ recipe_id <= 0 \/ recipe_id \notin RecipeIds(db) THEN <<>>
    ELSE LET r == CHOOSE x \in db.recipes : x.recipe_id = recipe_id
         IN << [name |-> r.name, description |-> r.description,
                prep_time_minutes |-> r.prep_time_minutes,
                cook_time_minutes |-> r.cook_time_minutes,
                servings |-> r.servings, is_favorite |-> r.is_favorite,
                source |-> r.source, source_url |-> r.source_url, author |-> r.author,
                ingredients |-> parseAllIngredients(ingredient_list(db, recipe_id),
                                                    uninitialized),
                tags |-> splitString(tag_list(db, recipe_id), "|"),
                instructions |-> splitString(instruction_list(db, recipe_id), "|")] >>

(***************************************************************************)
(* search: buildSearchQuery and executeSearch.                             *)
(***************************************************************************)
RECURSIVE Flatten(_)
Flatten(seqs) == IF seqs = <<>> THEN <<>> ELSE Head(seqs) \o Flatten(Tail(seqs))

\* The tokens the unicode61 tokenizer makes of a text: maximal runs of letters
\* and digits, folded to lower case (the model's words are their own stems).
RECURSIVE tokenize(_, _)
tokenize(text, cur) ==
    IF text = <<>> THEN (IF cur = <<>> THEN <<>> ELSE <<cur>>)
    ELSE IF ~IsAlnum(text[1])
    THEN (IF cur = <<>> THEN <<>> ELSE <<cur>>) \o tokenize(Tail(text), <<>>)
    ELSE tokenize(Tail(text), Append(cur, LowerChar(text[1])))

Tokens(text) == tokenize(text, <<>>)

\* The phrase occurs in the column: its tokens, in order and adjacent.
PhraseIn(phrase, column) ==
    /\ phrase # <<>>
    /\ \E i \in 1..(Len(column) - Len(phrase) + 1) :
          SubSeq(column, i, i + Len(phrase) - 1) = phrase

\* The columns of search that the triggers write (recipe_id stays NULL).
SearchColumns == {"name", "description", "author", "ingredients", "tags"}

\* The characters of an FTS5 bareword; outside a quoted string any other
\* character but white space is a syntax error of the MATCH expression, the
\* statement fails at its first step and executeSearch returns no row.
IsBareword(c) == c \notin {"\n", " ", "|"}

\* One sub-query of the MATCH expression against one row of search: bare
\* keywords (columns = "") are ANDed and may match in any column, a
\* {column} : "phrase" sub-query matches the phrase in that column.
SubQueryMatches(row, q) ==
    IF q.columns = ""
    THEN /\ \A i \in 1..Len(q.phrase) : IsBareword(q.phrase[i]) \/ q.phrase[i] = " "
         /\ Tokens(q.phrase) # <<>>
         /\ \A word \in Range(Tokens(q.phrase)) :
               \E col \in SearchColumns : word \in Range(Tokens(row[col]))
    ELSE PhraseIn(Tokens(q.phrase), Tokens(row[q.columns]))

\* search MATCH ?: the sub-queries are ANDed.
MATCH(row, fts_match_query) ==
    \A k \in 1..Len(fts_match_query) : SubQueryMatches(row, fts_match_query[k])

\* The MATCH expression buildSearchQuery concatenates, kept as the list of its
\* sub-queries: keywords, then {name} : "name", then {author} : "author".
fts_match_query(criteria) ==
    (IF criteria.keywords # <<>>
     THEN << [columns |-> "", phrase |-> criteria.keywords] >> ELSE <<>>) \o
    (IF criteria.name # <<>>
     THEN << [columns |-> "name", phrase |-> criteria.name] >> ELSE <<>>) \o
    (IF criteria.author # <<>>
     THEN << [columns |-> "author", phrase |-> criteria.author] >> ELSE <<>>)

\* A condition built by writing the caller's values into its text.
ConditionWithValuesInText(active, text, params) ==
    IF active
    THEN [conditions |-> << [text |-> <<text, params>>, placeholders |-> Len(params)] >>,
          params |-> params]
    ELSE [conditions |-> <<>>, params |-> <<>>]

\* One condition pushed by buildSearchQuery with the parameters pushed with it;
\* the SQL text of a condition is its text with that many placeholders.
Condition(active, text, params) ==
    IF active
    THEN [conditions |-> << [text |-> text, placeholders |-> Len(params)] >>,
          params |-> params]
    ELSE [conditions |-> <<>>, params |-> <<>>]

\* Database::buildSearchQuery: the conditions ANDed in the WHERE clause, in
\* order, and the bound parameters, in placeholder order.
buildSearchQuery(criteria) ==
    LET c == criteria
        parts ==
          << Condition(fts_match_query(c) # <<>>, "search MATCH ?", <<fts_match_query(c)>>),
             Condition(c.exact_name # <<>>, "r.name = ?", <<c.exact_name>>),
             Condition(c.exact_author # <<>>, "r.author = ?", <<c.exact_author>>),
             Condition(Len(c.prep_time_range) = 2, "r.prep_time_minutes BETWEEN ? AND ?",
                       SubSeq(c.prep_time_range, 1, 2)),
             Condition(Len(c.cook_time_range) = 2, "r.cook_time_minutes BETWEEN ? AND ?",
                       SubSeq(c.cook_time_range, 1, 2)),
             Condition(Len(c.servings_range) = 2, "r.servings BETWEEN ? AND ?",
                       SubSeq(c.servings_range, 1, 2)),
             Condition(c.is_favorite, "r.is_favorite = 1", <<>>),
             Condition(Len(c.dates) = 2 /\ c.dates[1] # <<>> /\ c.dates[2] # <<>>,
                       "date(r.date_added) BETWEEN ? AND ?", SubSeq(c.dates, 1, 2)),
             Condition(c.source # <<>>, "r.source = ?", <<c.source>>),
             Condition(c.source_url # <<>>, "r.source_url = ?", <<c.source_url>>),
             Condition(c.tags # <<>>, "t.name in (?) HAVING COUNT (DISTINCT t.name) = ?",
                       c.tags \o <<Len(c.tags)>>),
             Condition(c.exclude_tags # <<>>, "NOT EXISTS t.name IN (?)", c.exclude_tags),
             Condition(c.ingredients # <<>>,
                       "i.name in (?) HAVING COUNT (DISTINCT i.name) = ?",
                       c.ingredients \o <<Len(c.ingredients)>>),
             Condition(c.exclude_ingredients # <<>>, "NOT EXISTS i.name IN (?)",
                       c.exclude_ingredients) >>
    IN [sql    |-> Flatten([k \in 1..Len(parts) |-> parts[k].conditions]),
        params |-> Flatten([k \in 1..Len(parts) |-> parts[k].params])]

\* SQL date() of a stored timestamp: the part before the blank.
date(timestamp) ==
    LET parts == getlines(timestamp, " ", <<>>)
    IN IF parts = <<>> THEN <<>> ELSE parts[1]

\* A BETWEEN that leaves both ends out.
BETWEENExclusive(v, lo, hi) == lo < v /\ v < hi

BETWEEN(v, lo, hi) == lo <= v /\ v <= hi

TextBETWEEN(v, lo, hi) == ~StrLess(v, lo) /\ ~StrLess(hi, v)

\* One condition of the WHERE clause on recipe r with its bound parameters.
ConditionHolds(db, r, text, args) ==
    LET n == Len(args)
        tag_names == Range(LinkedTagNames(db, r.recipe_id))
        ingredient_names == Range(LinkedIngredientNames(db, r.recipe_id))
    IN CASE text = "search MATCH ?" ->
              \E row \in db.search : row.rowid = r.recipe_id /\ MATCH(row, args[1])
         [] text = "r.name = ?" -> r.name = args[1]
         [] text = "r.author = ?" -> r.author = args[1]
         [] text = "r.prep_time_minutes BETWEEN ? AND ?" ->
              BETWEEN(r.prep_time_minutes, args[1], args[2])
         [] text = "r.cook_time_minutes BETWEEN ? AND ?" ->
              BETWEEN(r.cook_time_minutes, args[1], args[2])
         [] text = "r.servings BETWEEN ? AND ?" -> BETWEEN(r.servings, args[1], args[2])
         [] text = "r.is_favorite = 1" -> r.is_favorite
         [] text = "date(r.date_added) BETWEEN ? AND ?" ->
              TextBETWEEN(date(r.date_added), args[1], args[2])
         [] text = "r.source = ?" -> r.source = args[1]
         [] text = "r.source_url = ?" -> r.source_url = args[1]
         [] text = "t.name in (?) HAVING COUNT (DISTINCT t.name) = ?" ->
              LET found == tag_names \cap Range(SubSeq(args, 1, n - 1))
              IN found # {} /\ Cardinality(found) = args[n]
         [] text = "NOT EXISTS t.name IN (?)" -> tag_names \cap Range(args) = {}
         [] text = "i.name in (?) HAVING COUNT (DISTINCT i.name) = ?" ->
              LET found == ingredient_names \cap Range(SubSeq(args, 1, n - 1))
              IN found # {} /\ Cardinality(found) = args[n]
         [] text = "NOT EXISTS i.name IN (?)" -> ingredient_names \cap Range(args) = {}

\* A WHERE clause that holds only conditions[0]: the loop that appends
\* " AND " + conditions[i] is left out.
WHEREFirstConditionOnly(db, r, query, k, p) ==
    IF k > Len(query.sql) THEN TRUE
    ELSE ConditionHolds(db, r, query.sql[k].text,
                        SubSeq(query.params, p, p + query.sql[k].placeholders - 1))

\* The WHERE clause: conditions k.. of the query, the first of whose
\* parameters is params[p].
RECURSIVE WHERE(_, _, _, _, _)
WHERE(db, r, query, k, p) ==
    IF k > Len(query.sql) THEN TRUE
    ELSE LET cond == query.sql[k]
         IN /\ ConditionHolds(db, r, cond.text,
                              SubSeq(query.params, p, p + cond.placeholders - 1))
            /\ WHERE(db, r, query, k + 1, p + cond.placeholders)

\* Database::executeSearch: SELECT DISTINCT r.recipe_id FROM recipes AS r WHERE ...
executeSearch(db, query) ==
    SortInts({r.recipe_id : r \in {x \in db.recipes : WHERE(db, x, query, 1, 1)}})

\* Database::search.
search(db, open, criteria) ==
    IF ~open THEN <<>> ELSE executeSearch(db, buildSearchQuery(criteria))

\* A DELETE FROM recipes with foreign keys off: nothing cascades.
deleteRecipeRowNoCascade(db, recipe_id) ==
    recipe_after_delete([db EXCEPT !.recipes = {r \in @ : r.recipe_id # recipe_id}],
                        recipe_id)

(***************************************************************************)
(* deleteRecipe and emptyDatabase.                                         *)
(***************************************************************************)
\* DELETE FROM recipes WHERE recipe_id = ?: ON DELETE CASCADE removes the links
\* and instructions of the recipe, recipe_after_delete its search row.
deleteRecipeRow(db, recipe_id) ==
    recipe_after_delete(
        [db EXCEPT !.recipes = {r \in @ : r.recipe_id # recipe_id},
                   !.recipe_ingredients = {l \in @ : l.recipe_id # recipe_id},
                   !.recipe_tags = {l \in @ : l.recipe_id # recipe_id},
                   !.instructions = {x \in @ : x.recipe_id # recipe_id}],
        recipe_id)

\* DELETE FROM ingredients WHERE ingredient_id NOT IN (SELECT ... FROM recipe_ingredients).
clean_ingredients(db) ==
    [db EXCEPT !.ingredients =
        {i \in @ : \E l \in db.recipe_ingredients : l.ingredient_id = i.ingredient_id}]

\* DELETE FROM tags WHERE tag_id NOT IN (SELECT ... FROM recipe_tags).
clean_tags(db) ==
    [db EXCEPT !.tags = {t \in @ : \E l \in db.recipe_tags : l.tag_id = t.tag_id}]

\* Database::deleteRecipe on the open connection.
deleteRecipe(db, inTxn, recipe_id, fault) ==
    IF recipe_id <= 0 THEN [ret |-> FALSE, db |-> db]
    ELSE IF inTxn \/ fault = "begin" THEN [ret |-> FALSE, db |-> db]
    ELSE IF fault = "delete" THEN [ret |-> FALSE, db |-> ROLLBACK(db, db)]
    ELSE LET d1 == deleteRecipeRow(db, recipe_id)
             d2 == IF fault = "clean_ingredients" THEN d1 ELSE clean_ingredients(d1)
             d3 == IF fault = "clean_tags" THEN d2 ELSE clean_tags(d2)
         IN IF fault = "commit" THEN [ret |-> FALSE, db |-> ROLLBACK(db, d3)]
            ELSE [ret |-> TRUE, db |-> d3]

\* The script of emptyDatabase; a failing statement ends sqlite3_exec and leaves
\* the transaction of the script open.
emptyDatabase(db, inTxn, fault) ==
    LET d1 == [db EXCEPT !.recipes = {}, !.recipe_ingredients = {}, !.recipe_tags = {},
                         !.instructions = {}, !.search = {}]
        d2 == [d1 EXCEPT !.ingredients = {}, !.tags = {}, !.search = {},
                         !.sqlite_sequence = [recipes |-> 0, ingredients |-> 0, tags |-> 0]]
    IN IF inTxn \/ fault = "begin" THEN [ret |-> FALSE, db |-> db, txnOpen |-> inTxn]
       ELSE IF fault = "delete" THEN [ret |-> FALSE, db |-> d1, txnOpen |-> TRUE]
       ELSE IF fault = "commit" THEN [ret |-> FALSE, db |-> d2, txnOpen |-> TRUE]
       ELSE [ret |-> TRUE, db |-> d2, txnOpen |-> FALSE]

(***************************************************************************)
(* mergeDatabase: the statements of merge_script.                          *)
(***************************************************************************)
\* A PRIMARY KEY (source_id) rejects an INSERT ... SELECT whose rows repeat a key.
RepeatsSourceId(rows) ==
    \E a \in rows : \E b \in rows : a # b /\ a.source_id = b.source_id

RECURSIVE insertIngredientNames(_, _)
insertIngredientNames(db, names) ==
    IF names = <<>> THEN db
    ELSE LET id == NextRowid({i.ingredient_id : i \in db.ingredients},
                             db.sqlite_sequence.ingredients)
         IN insertIngredientNames(
               [db EXCEPT !.ingredients = @ \cup {[ingredient_id |-> id, name |-> names[1]]},
                          !.sqlite_sequence.ingredients = id],
               Tail(names))

RECURSIVE insertTagNames(_, _)
insertTagNames(db, names) ==
    IF names = <<>> THEN db
    ELSE LET id == NextRowid({t.tag_id : t \in db.tags}, db.sqlite_sequence.tags)
         IN insertTagNames(
               [db EXCEPT !.tags = @ \cup {[tag_id |-> id, name |-> names[1]]},
                          !.sqlite_sequence.tags = id],
               Tail(names))

\* STEP 1: INSERT INTO main.ingredients (name) SELECT s.name FROM source_db.ingredients
\* WHERE NOT EXISTS (... lower(t.name) = lower(s.name)); the SELECT is evaluated
\* on main.ingredients as it is before the statement.
merge_ingredients(main, source) ==
    LET ids   == SortInts({s.ingredient_id : s \in
                    {x \in source.ingredients :
                        ~\E t \in main.ingredients : lower(t.name) = lower(x.name)}})
        names == [k \in 1..Len(ids) |-> IngredientName(source, ids[k])]
    IN insertIngredientNames(main, names)

merge_tags(main, source) ==
    LET ids   == SortInts({s.tag_id : s \in
                    {x \in source.tags :
                        ~\E t \in main.tags : lower(t.name) = lower(x.name)}})
        names == [k \in 1..Len(ids) |-> TagName(source, ids[k])]
    IN insertTagNames(main, names)

\* The rows selected for ingredient_id_map and tag_id_map.
ingredient_id_map(main, source) ==
    {[source_id |-> s.ingredient_id, target_id |-> t.ingredient_id] :
        <<s, t>> \in {p \in source.ingredients \X main.ingredients :
                        lower(p[1].name) = lower(p[2].name)}}

tag_id_map(main, source) ==
    {[source_id |-> s.tag_id, target_id |-> t.tag_id] :
        <<s, t>> \in {p \in source.tags \X main.tags :
                        lower(p[1].name) = lower(p[2].name)}}

\* STEP 2: recipe_id, group_concat(name, '|') of the names ordered by name; only
\* a recipe with at least one ingredient link has a row.
recipe_ingredients_set(db) ==
    {[recipe_id |-> rid,
      ingredient_set |-> group_concat(SortStrs(LinkedIngredientNames(db, rid)), "|")] :
        rid \in {l.recipe_id : l \in db.recipe_ingredients}}

\* The WHERE clause of pass 1.
sameRecipe(s, t) ==
    /\ lower(s.name) = lower(t.name)
    /\ \/ (s.author # Null /\ s.author # <<>> /\ lower(s.author) = lower(t.author))
       \/ (s.source # Null /\ s.source # <<>> /\ lower(s.source) = lower(t.source))
       \/ (s.source_url # Null /\ s.source_url # <<>>
              /\ lower(s.source_url) = lower(t.source_url))

\* Pass 1: the rows selected by the four-way join.
pass1(main, source) ==
    LET s_sets == recipe_ingredients_set(source)
        t_sets == recipe_ingredients_set(main)
    IN {[source_id |-> q[1].recipe_id, target_id |-> q[4].recipe_id, is_duplicate |-> 1] :
          q \in {p \in source.recipes \X s_sets \X t_sets \X main.recipes :
                    /\ p[1].recipe_id = p[2].recipe_id
                    /\ p[2].ingredient_set = p[3].ingredient_set
                    /\ p[4].recipe_id = p[3].recipe_id
                    /\ sameRecipe(p[1], p[4])}}

\* An offset of one more than the largest identity of the target.
newRecipeIdFromNextFree(source_recipe_id, max_recipe_id) ==
    source_recipe_id + max_recipe_id + 1

\* Pass 2: s.recipe_id + (SELECT max_recipe_id FROM vars).
newRecipeId(source_recipe_id, max_recipe_id) == source_recipe_id + max_recipe_id

pass2(main, source, map1) ==
    LET max_recipe_id == SetMax(RecipeIds(main))
    IN {[source_id |-> s.recipe_id,
         target_id |-> newRecipeId(s.recipe_id, max_recipe_id), is_duplicate |-> 0] :
          s \in {x \in source.recipes : x.recipe_id \notin {m.source_id : m \in map1}}}

\* The search rows of the recipes in rids after the link triggers have fired.
update_ingredients_all(db, rids) ==
    [db EXCEPT !.search =
        {IF s.rowid \in rids
         THEN [s EXCEPT !.ingredients =
                  COALESCE(group_concat(LinkedIngredientNames(db, s.rowid), "|"), <<>>)]
         ELSE s : s \in @}]

update_tags_all(db, rids) ==
    [db EXCEPT !.search =
        {IF s.rowid \in rids
         THEN [s EXCEPT !.tags =
                  COALESCE(group_concat(LinkedTagNames(db, s.rowid), "|"), <<>>)]
         ELSE s : s \in @}]

\* newRecipeRows with the source recipes joined to their ingredient links, as
\* pass 1 joins them: a new recipe without ingredients is not replayed.
newRecipeRowsJoined(source, map) ==
    {[s EXCEPT !.recipe_id = m.target_id] :
        <<s, m>> \in {p \in source.recipes \X map :
                        /\ p[1].recipe_id = p[2].source_id /\ p[2].is_duplicate = 0
                        /\ \E l \in source.recipe_ingredients :
                              l.recipe_id = p[1].recipe_id}}

\* STEP 4, INSERT INTO main.recipes ... WHERE map.is_duplicate = 0.
newRecipeRows(source, map) ==
    {[s EXCEPT !.recipe_id = m.target_id] :
        <<s, m>> \in {p \in source.recipes \X map :
                        p[1].recipe_id = p[2].source_id /\ p[2].is_duplicate = 0}}

insertNewRecipes(main, source, map) ==
    LET rows == newRecipeRows(source, map)
        ids  == {r.recipe_id : r \in rows}
    IN IF \/ ids \cap RecipeIds(main) # {}
          \/ Cardinality(ids) # Cardinality(rows)
       THEN [ok |-> FALSE, db |-> main]
       ELSE [ok |-> TRUE,
             db |-> [main EXCEPT
                       !.recipes = @ \cup rows,
                       !.sqlite_sequence.recipes = SetMax(ids \cup {@}),
                       !.search = {s \in @ : s.rowid \notin ids} \cup
                                  {[rowid |-> r.recipe_id, name |-> r.name,
                                    description |-> r.description, author |-> r.author,
                                    ingredients |-> Null, tags |-> Null] : r \in rows}]]

\* The tag links selected for the recipes with the given is_duplicate flag.
tagLinkRows(source, map, tmap, flag) ==
    {[recipe_id |-> q[2].target_id, tag_id |-> q[3].target_id] :
        q \in {p \in source.recipe_tags \X map \X tmap :
                 /\ p[1].recipe_id = p[2].source_id
                 /\ p[1].tag_id = p[3].source_id
                 /\ p[2].is_duplicate = flag}}

\* An INSERT OR REPLACE keyed on the recipe: the tag links of the source
\* recipe take the place of those of the target recipe.
mergeDuplicateTagsReplacing(main, source, map, tmap) ==
    LET rows == tagLinkRows(source, map, tmap, 1)
        rids == {l.recipe_id : l \in rows}
    IN update_tags_all([main EXCEPT !.recipe_tags =
                                       {l \in @ : l.recipe_id \notin rids} \cup rows],
                       rids)

\* INSERT OR IGNORE INTO main.recipe_tags ... WHERE map.is_duplicate = 1.
mergeDuplicateTags(main, source, map, tmap) ==
    LET rows == tagLinkRows(source, map, tmap, 1) \ main.recipe_tags
    IN update_tags_all([main EXCEPT !.recipe_tags = @ \cup rows],
                       {l.recipe_id : l \in rows})

\* INSERT INTO main.recipe_ingredients ... WHERE map.is_duplicate = 0.
ingredientLinkRows(source, map, imap) ==
    {<<[q[1] EXCEPT !.recipe_id = q[2].target_id, !.ingredient_id = q[3].target_id], q[1]>> :
        q \in {p \in source.recipe_ingredients \X map \X imap :
                 /\ p[1].recipe_id = p[2].source_id
                 /\ p[1].ingredient_id = p[3].source_id
                 /\ p[2].is_duplicate = 0}}

insertNewIngredientLinks(main, source, map, imap) ==
    LET pairs == ingredientLinkRows(source, map, imap)
        rows  == {p[1] : p \in pairs}
        keys  == {<<r.recipe_id, r.ingredient_id>> : r \in rows}
    IN IF \/ \E a \in pairs : \E b \in pairs :
                a # b /\ a[1].recipe_id = b[1].recipe_id
                      /\ a[1].ingredient_id = b[1].ingredient_id
          \/ \E l \in main.recipe_ingredients : <<l.recipe_id, l.ingredient_id>> \in keys
       THEN [ok |-> FALSE, db |-> main]
       ELSE [ok |-> TRUE,
             db |-> update_ingredients_all(
                       [main EXCEPT !.recipe_ingredients = @ \cup rows],
                       {r.recipe_id : r \in rows})]

\* INSERT INTO main.recipe_tags ... WHERE map.is_duplicate = 0.
insertNewTagLinks(main, source, map, tmap) ==
    LET pairs == {<<[recipe_id |-> q[2].target_id, tag_id |-> q[3].target_id], q[1]>> :
                    q \in {p \in source.recipe_tags \X map \X tmap :
                             /\ p[1].recipe_id = p[2].source_id
                             /\ p[1].tag_id = p[3].source_id
                             /\ p[2].is_duplicate = 0}}
        rows  == {p[1] : p \in pairs}
    IN IF \/ \E a \in pairs : \E b \in pairs : a # b /\ a[1] = b[1]
          \/ rows \cap main.recipe_tags # {}
       THEN [ok |-> FALSE, db |-> main]
       ELSE [ok |-> TRUE,
             db |-> update_tags_all([main EXCEPT !.recipe_tags = @ \cup rows],
                                    {r.recipe_id : r \in rows})]

\* A replay without the INSERT INTO main.instructions.
insertNewInstructionsLeftOut(main, source, map) == [ok |-> TRUE, db |-> main]

\* INSERT INTO main.instructions ... WHERE map.is_duplicate = 0.
insertNewInstructions(main, source, map) ==
    LET rows == {[x EXCEPT !.recipe_id = m.target_id] :
                    <<x, m>> \in {p \in source.instructions \X map :
                                    p[1].recipe_id = p[2].source_id
                                    /\ p[2].is_duplicate = 0}}
    IN IF \E a \in rows : \E b \in rows \cup main.instructions :
             a # b /\ a.recipe_id = b.recipe_id /\ a.step_number = b.step_number
       THEN [ok |-> FALSE, db |-> main]
       ELSE [ok |-> TRUE, db |-> [main EXCEPT !.instructions = @ \cup rows]]

\* merge_script run by sqlite3_exec: it stops at the first failing statement.
\* Each operator below is one statement with those that follow it; done is what
\* the script has produced so far: the target as the transaction sees it, the
\* temporary maps, and stage, the statement that failed ("done": COMMIT succeeded).
NothingMerged(main) ==
    [ok |-> FALSE, db |-> main, stage |-> "source_db.ingredients",
     imap |-> {}, tmap |-> {}, map |-> {}]

\* STEP 5, after the last INSERT: the DROPs, the PRAGMAs and COMMIT.
finalize(done, r8, fault) ==
    IF ~r8.ok THEN [done EXCEPT !.db = r8.db, !.stage = "instructions"]
    ELSE IF fault = "script" THEN [done EXCEPT !.db = r8.db, !.stage = "storage"]
    ELSE IF fault = "commit" THEN [done EXCEPT !.db = r8.db, !.stage = "commit"]
    ELSE [done EXCEPT !.ok = TRUE, !.db = r8.db, !.stage = "done"]

replayInstructions(done, r7, source, fault) ==
    IF ~r7.ok THEN [done EXCEPT !.db = r7.db, !.stage = "recipe_tags"]
    ELSE finalize(done, insertNewInstructions(r7.db, source, done.map), fault)

replayTagLinks(done, r6, source, fault) ==
    IF ~r6.ok THEN [done EXCEPT !.db = r6.db, !.stage = "recipe_ingredients"]
    ELSE replayInstructions(done, insertNewTagLinks(r6.db, source, done.map, done.tmap),
                            source, fault)

replayIngredientLinks(done, r4, source, fault) ==
    IF ~r4.ok THEN [done EXCEPT !.db = r4.db, !.stage = "recipes"]
    ELSE replayTagLinks(
            done,
            insertNewIngredientLinks(mergeDuplicateTags(r4.db, source, done.map, done.tmap),
                                     source, done.map, done.imap),
            source, fault)

\* STEP 4.
replay(done, source, fault) ==
    replayIngredientLinks(done, insertNewRecipes(done.db, source, done.map), source, fault)

\* STEP 3: pass 1, then pass 2 on the rows of pass 1.
buildRecipeMap(done, map1, source, fault) ==
    IF RepeatsSourceId(map1)
    THEN [done EXCEPT !.stage = "recipe_id_map", !.map = map1]
    ELSE replay([done EXCEPT !.map = map1 \cup pass2(done.db, source, map1)], source, fault)

\* STEP 1, the tags.
mapTags(done, m2, source, fault) ==
    IF RepeatsSourceId(tag_id_map(m2, source))
    THEN [done EXCEPT !.db = m2, !.stage = "tag_id_map", !.tmap = tag_id_map(m2, source)]
    ELSE buildRecipeMap([done EXCEPT !.db = m2, !.tmap = tag_id_map(m2, source)],
                        pass1(m2, source), source, fault)

\* STEP 1, the ingredients.
mapIngredients(done, m1, source, fault) ==
    IF RepeatsSourceId(ingredient_id_map(m1, source))
    THEN [done EXCEPT !.db = m1, !.stage = "ingredient_id_map",
                      !.imap = ingredient_id_map(m1, source)]
    ELSE mapTags([done EXCEPT !.db = m1, !.imap = ingredient_id_map(m1, source)],
                 merge_tags(m1, source), source, fault)

merge_script(main, source, fault) ==
    IF ~source.schema THEN NothingMerged(main)
    ELSE mapIngredients(NothingMerged(main), merge_ingredients(main, source), source, fault)

\* What mergeDatabase does once merge_script has returned r: ROLLBACK when the
\* script failed, then DETACH; a failing DETACH returns false whatever r is.
detach(main, r, fault) ==
    [ret |-> IF fault = "detach" THEN FALSE ELSE r.ok,
     db |-> IF r.ok THEN r.db ELSE ROLLBACK(main, r.db),
     attached |-> fault = "detach",
     stage |-> r.stage, imap |-> r.imap, tmap |-> r.tmap, map |-> r.map]

\* Database::mergeDatabase on the open connection.  t: the transaction state of
\* the connection; isAttached: source_db is still attached from an earlier call.
mergeDatabase(main, t, isAttached, source, fault) ==
    IF t.open \/ isAttached \/ fault = "attach"
    THEN \* ATTACH failed: executeSQL("ROLLBACK;"); return false;
         [ret |-> FALSE, db |-> IF t.open THEN ROLLBACK(t.snapshot, main) ELSE main,
          attached |-> isAttached, stage |-> "attach", imap |-> {}, tmap |-> {}, map |-> {}]
    ELSE detach(main, merge_script(main, source, fault), fault)

(***************************************************************************)
(* Inputs of the model.                                                    *)
(***************************************************************************)
Ingredient(name) ==
    [name |-> name, quantity |-> 1, unit |-> <<"u">>, notes |-> <<>>, optional |-> FALSE]

Recipe(name, author, ingredients, tags, instructions) ==
    [name |-> name, description |-> <<>>, prep_time_minutes |-> 1, cook_time_minutes |-> 2,
     servings |-> 1, is_favorite |-> FALSE, source |-> <<>>, source_url |-> <<>>,
     author |-> author,
     ingredients |-> [k \in 1..Len(ingredients) |-> Ingredient(ingredients[k])],
     tags |-> tags, instructions |-> instructions]

\* Recipes added to the two collections that are merged.
MergeInputs ==
    { Recipe(<<"p">>, <<"m">>, << <<"a">> >>, << <<"t">> >>, << <<"s">> >>),
      Recipe(<<"P">>, <<"M">>, <<>>, << <<"T">> >>, <<>>) }

\* The collection that is merged into the open one.
SourcePaths == {"other.db"}

Clock == { <<"1", " ", "1">> }

MergeFaults == {"none", "attach", "script", "commit", "detach"}
EmptyFaults == {"none", "commit"}
DeleteFaults == {"none", "begin", "delete", "clean_ingredients", "clean_tags", "commit"}

(***************************************************************************)
(* The state machine.                                                      *)
(***************************************************************************)
isOpen == is_db_open_

\* The last call on the handle: operation, argument, returned value, and what
\* the call reported on its way (the failing statement, the temporary tables).
NoCall == [arg |-> <<>>, ret |-> <<>>, aux |-> <<>>]

Call(op, arg, ret, aux) ==
    /\ called' = op
    /\ last' = [arg |-> arg, ret |-> ret, aux |-> aux]

Init ==
    /\ files = [p \in Paths |-> NoSchema]
    /\ is_db_open_ = FALSE
    /\ db_path_ = ""
    /\ txn = NoTxn
    /\ attached = FALSE
    /\ ever_recipe_ids = [p \in Paths |-> {}]
    /\ called = "none"
    /\ last = NoCall

\* History of the open collection: the values of recipes.recipe_id that have
\* denoted a recipe of it since it was last emptied.
Remember(db) ==
    [ever_recipe_ids EXCEPT ![db_path_] = @ \cup RecipeIds(db)]

\* emptyDatabase deletes every row, those of sqlite_sequence included: the
\* identities of the collection start again.
Forget == [ever_recipe_ids EXCEPT ![db_path_] = {}]

\* sqlite3_close: an open transaction is rolled back, attachments are dropped.
closed(f) ==
    IF is_db_open_ /\ txn.open THEN [f EXCEPT ![db_path_] = txn.snapshot] ELSE f

\* Database::open(db_path) and loadDatabase(db_path).
Open(db_path) ==
    /\ files' = [closed(files) EXCEPT ![db_path] = initialize(@)]
    /\ is_db_open_' = TRUE
    /\ db_path_' = db_path
    /\ txn' = NoTxn
    /\ attached' = FALSE
    /\ Call("open", db_path, TRUE, <<>>)
    /\ UNCHANGED ever_recipe_ids

\* Database::close().
Close ==
    /\ is_db_open_
    /\ files' = closed(files)
    /\ is_db_open_' = FALSE
    /\ txn' = NoTxn
    /\ attached' = FALSE
    /\ Call("close", <<>>, <<>>, <<>>)
    /\ UNCHANGED <<db_path_, ever_recipe_ids>>

AddRecipe(Inputs, Faults, Times) ==
    \E recipe \in Inputs, now \in Times, fault \in Faults :
        IF ~isOpen
        THEN /\ fault = "none"
             /\ Call("addRecipe", recipe, 0, "closed")
             /\ UNCHANGED <<files, is_db_open_, db_path_, txn, attached, ever_recipe_ids>>
        ELSE \E r \in {addRecipe(files[db_path_], txn.open, recipe, now, fault)} :
                /\ Cardinality(files[db_path_].recipes) < MaxRecipes
                /\ files[db_path_].sqlite_sequence.recipes < MaxSeq
                /\ r.db.sqlite_sequence.ingredients <= MaxVocabSeq
                /\ r.db.sqlite_sequence.tags <= MaxVocabSeq
                /\ files' = [files EXCEPT ![db_path_] = r.db]
                /\ ever_recipe_ids' = Remember(r.db)
                /\ Call("addRecipe", recipe, r.ret, r.stage)
                /\ UNCHANGED <<is_db_open_, db_path_, txn, attached>>

DeleteRecipe(Faults) ==
    \E recipe_id \in 0..(2 * MaxSeq), fault \in Faults :
        IF ~isOpen
        THEN /\ fault = "none"
             /\ recipe_id = 0
             /\ Call("deleteRecipe", recipe_id, FALSE, "closed")
             /\ UNCHANGED <<files, is_db_open_, db_path_, txn, attached, ever_recipe_ids>>
        ELSE \E r \in {deleteRecipe(files[db_path_], txn.open, recipe_id, fault)} :
                /\ recipe_id <= SetMax(RecipeIds(files[db_path_])) + 1
                /\ files[db_path_].sqlite_sequence.recipes <= 2 * MaxSeq
                /\ files' = [files EXCEPT ![db_path_] = r.db]
                /\ ever_recipe_ids' = Remember(r.db)
                /\ Call("deleteRecipe", recipe_id, r.ret, fault)
                /\ UNCHANGED <<is_db_open_, db_path_, txn, attached>>

EmptyDatabase(Faults) ==
    \E fault \in Faults :
        IF ~isOpen
        THEN /\ fault = "none"
             /\ Call("emptyDatabase", <<>>, FALSE, "closed")
             /\ UNCHANGED <<files, is_db_open_, db_path_, txn, attached, ever_recipe_ids>>
        ELSE \E r \in {emptyDatabase(files[db_path_], txn.open, fault)} :
                /\ files' = [files EXCEPT ![db_path_] = r.db]
                /\ txn' = IF r.txnOpen /\ ~txn.open
                          THEN [open |-> TRUE, snapshot |-> files[db_path_]]
                          ELSE txn
                /\ ever_recipe_ids' = IF r.ret THEN Forget ELSE ever_recipe_ids
                /\ Call("emptyDatabase", <<>>, r.ret, fault)
                /\ UNCHANGED <<is_db_open_, db_path_, attached>>

MergeDatabase(Faults) ==
    \E source_db_path \in SourcePaths, fault \in Faults :
        IF ~isOpen
        THEN /\ fault = "none"
             /\ Call("mergeDatabase", source_db_path, FALSE,
                     [fault |-> fault, stage |-> "closed", imap |-> {},
                               tmap |-> {}, map |-> {}])
             /\ UNCHANGED <<files, is_db_open_, db_path_, txn, attached, ever_recipe_ids>>
        ELSE \E r \in {mergeDatabase(files[db_path_], txn, attached,
                                     files[source_db_path], fault)} :
                /\ source_db_path # db_path_
                /\ SetMax(RecipeIds(r.db)) <= 2 * MaxSeq
                /\ r.db.sqlite_sequence.ingredients <= MaxVocabSeq
                /\ r.db.sqlite_sequence.tags <= MaxVocabSeq
                /\ files' = [files EXCEPT ![db_path_] = r.db]
                /\ txn' = NoTxn
                /\ attached' = r.attached
                /\ ever_recipe_ids' = Remember(r.db)
                /\ Call("mergeDatabase", source_db_path, r.ret,
                                [fault |-> fault, stage |-> r.stage, imap |-> r.imap,
                                 tmap |-> r.tmap, map |-> r.map])
                /\ UNCHANGED <<is_db_open_, db_path_>>

(***************************************************************************)
(* Spec: two collections built by addRecipe, other.db merged into the open *)
(* one; the storage engine may fail at any step of the merge.              *)
(***************************************************************************)
Next ==
    \/ \E db_path \in Paths : Open(db_path)
    \/ Close
    \/ AddRecipe(MergeInputs, {"none"}, Clock)
    \/ MergeDatabase(MergeFaults)

Spec == Init /\ [][Next]_vars

(***************************************************************************)
(* Claims about mergeDatabase.                                             *)
(***************************************************************************)
\* A step that is a mergeDatabase call on an open handle.
MergeCall == called' = "mergeDatabase" /\ last'.aux.stage # "closed"

\* The set of ingredient names linked to a recipe.
IngredientNameSet(db, rid) == Range(LinkedIngredientNames(db, rid))

TagIdSet(db, rid) == {l.tag_id : l \in {x \in db.recipe_tags : x.recipe_id = rid}}

DuplicateRows(map) == {m \in map : m.is_duplicate = 1}

\* C1: whenever mergeDatabase returns false, whichever step failed (attach, a
\* statement of the script, commit or detach), the target collection (recipes,
\* vocabulary, links, instructions, text index) is what it was before the call.
C1_FailedMergeLeavesTarget ==
    [][(MergeCall /\ last'.ret = FALSE) => files'[db_path_] = files[db_path_]]_vars

\* C2: after a successful merge of a source with M recipes into a target with N
\* recipes, D of the source recipes being classified as duplicates, the target
\* holds N + M - D recipes with pairwise distinct identities and every recipe
\* it held before, under the same identity.
C2_MergeCount ==
    [][(MergeCall /\ last'.ret = TRUE) =>
        LET before == files[db_path_]
            after  == files'[db_path_]
            source == files[last'.arg]
            D      == Cardinality(DuplicateRows(last'.aux.map))
        IN /\ Cardinality(after.recipes) =
                 Cardinality(before.recipes) + Cardinality(source.recipes) - D
           /\ \A r1 \in after.recipes : \A r2 \in after.recipes :
                 r1.recipe_id = r2.recipe_id => r1 = r2
           /\ before.recipes \subseteq after.recipes]_vars

\* A successful merge that found a duplicate and replayed a new recipe into a
\* target that already held recipes.
C2_Witness ==
    /\ called = "mergeDatabase"
    /\ last.ret = TRUE
    /\ \E m \in last.aux.map : m.is_duplicate = 1
    /\ \E m \in last.aux.map : m.is_duplicate = 0 /\ m.target_id > m.source_id

\* S (of the source) and T (of the target) are the same recipe: names equal
\* ignoring case, the same set of ingredient names, and one of author, source,
\* source_url non-empty on S and equal ignoring case.
IsCopyOf(source, S, target, T) ==
    /\ lower(S.name) = lower(T.name)
    /\ IngredientNameSet(source, S.recipe_id) = IngredientNameSet(target, T.recipe_id)
    /\ \/ (S.author # <<>> /\ lower(S.author) = lower(T.author))
       \/ (S.source # <<>> /\ lower(S.source) = lower(T.source))
       \/ (S.source_url # <<>> /\ lower(S.source_url) = lower(T.source_url))

\* C3: a source recipe S is classified as a duplicate if and only if some target
\* recipe T has the same name ignoring case, exactly the same set of ingredient
\* names (also when both are empty) and agrees on one of author, source,
\* source_url that is non-empty on S; every other source recipe is new.
C3_DuplicateIffCopy ==
    [][(MergeCall /\ last'.ret = TRUE) =>
        \A S \in files[last'.arg].recipes :
            /\ Cardinality({m \in last'.aux.map : m.source_id = S.recipe_id}) = 1
            /\ (\E m \in DuplicateRows(last'.aux.map) : m.source_id = S.recipe_id)
               <=> (\E T \in files[db_path_].recipes :
                       IsCopyOf(files[last'.arg], S, files[db_path_], T))]_vars

\* C4: if the source holds a copy S of a target recipe T (same name, same
\* ingredient set, same non-empty author), a successful merge adds no recipe
\* for S and leaves T with its former tags plus the tags of its copies,
\* translated through the tag map.
C4_CopyAddsOnlyTags ==
    [][(MergeCall /\ last'.ret = TRUE) =>
        LET before == files[db_path_]
            after  == files'[db_path_]
            source == files[last'.arg]
            copies(T) == {S \in source.recipes :
                            /\ S.name = T.name
                            /\ S.author = T.author /\ S.author # <<>>
                            /\ IngredientNameSet(source, S.recipe_id) =
                                  IngredientNameSet(before, T.recipe_id)}
            translated(S) == {tm.target_id : tm \in
                                {x \in last'.aux.tmap :
                                    x.source_id \in TagIdSet(source, S.recipe_id)}}
        IN \A T \in before.recipes :
              copies(T) # {} =>
                 /\ \A S \in copies(T) :
                       \E m \in last'.aux.map :
                          m.source_id = S.recipe_id /\ m.is_duplicate = 1
                          /\ m.target_id = T.recipe_id
                 /\ TagIdSet(after, T.recipe_id) =
                       TagIdSet(before, T.recipe_id)
                          \cup UNION {translated(S) : S \in copies(T)}]_vars

\* C5: in a merge every source ingredient and every source tag is mapped to
\* exactly one target row, whose name equals the source name ignoring case, and
\* the merge inserts a target row only for a name without such a match; this for
\* every vocabulary, also one holding two names that differ only in case.
C5_VocabularyMap ==
    [][(MergeCall /\ last'.aux.fault = "none" /\ files[last'.arg].schema /\ ~attached
            /\ ~txn.open) =>
        LET after  == files'[db_path_]
            source == files[last'.arg]
        IN /\ last'.ret = TRUE
           /\ \A s \in source.ingredients :
                 /\ Cardinality({m \in last'.aux.imap :
                                    m.source_id = s.ingredient_id}) = 1
                 /\ \A m \in last'.aux.imap :
                       m.source_id = s.ingredient_id =>
                          \E t \in after.ingredients :
                             t.ingredient_id = m.target_id
                             /\ lower(t.name) = lower(s.name)
           /\ \A s \in source.tags :
                 /\ Cardinality({m \in last'.aux.tmap : m.source_id = s.tag_id}) = 1
                 /\ \A m \in last'.aux.tmap :
                       m.source_id = s.tag_id =>
                          \E t \in after.tags :
                             t.tag_id = m.target_id /\ lower(t.name) = lower(s.name)]_vars

\* C6: in every merge each source recipe is mapped to at most one target
\* recipe; when a source recipe qualifies as a duplicate of two or more target
\* recipes the merge selects one of them and still succeeds.
C6_OneMatchPerSource ==
    [][(MergeCall /\ last'.aux.fault = "none" /\ ~attached /\ ~txn.open
            /\ \E S \in files[last'.arg].recipes :
                  Cardinality({T \in files[db_path_].recipes :
                     IsCopyOf(files[last'.arg], S, files[db_path_], T)}) >= 2) =>
        /\ last'.ret = TRUE
        /\ \A S \in files[last'.arg].recipes :
              Cardinality({m \in last'.aux.map : m.source_id = S.recipe_id}) = 1]_vars

(***************************************************************************)
(* SpecAdd: one collection; addRecipe with well-formed and malformed       *)
(* recipes and a storage engine that may fail at any statement, read back  *)
(* with getRecipeById; recipes are deleted and the collection is emptied.  *)
(***************************************************************************)
AddInputs ==
    { Recipe(<<"p">>, <<"m">>, << <<"a">>, <<"b">> >>, << <<"t">>, <<"u">> >>,
             << <<"s">>, <<"t">> >>),
      Recipe(<<"q">>, <<>>, << <<"b">> >>, << <<"a", "|", "b">> >>, << <<"s">> >>),
      Recipe(<<>>, <<"m">>, << <<"a">> >>, <<>>, <<>>),
      Recipe(<<"p">>, <<"m">>, << <<"a">>, <<>> >>, <<>>, <<>>),
      Recipe(<<"p">>, <<"m">>, << <<"a">>, <<"a">> >>, <<>>, <<>>),
      Recipe(<<"p">>, <<"m">>, << <<"a">> >>, << <<"t">>, <<>> >>, <<>>),
      Recipe(<<"p">>, <<"m">>, << <<"a">> >>, << <<"t">>, <<"t">> >>, <<>>),
      Recipe(<<"p">>, <<"m">>, << <<"a">> >>, << <<"t">> >>, << <<"s">>, <<>> >>) }

AddFaults == {"none", "begin", "recipe", "ingredient", "tag", "instruction", "commit"}

\* Values an uninitialized double may hold.
Uninitialized == {0, 7}

GetRecipeById ==
    \E recipe_id \in (-1)..(MaxSeq + 1), uninitialized \in Uninitialized :
        /\ is_db_open_ => recipe_id <= SetMax(RecipeIds(files[db_path_])) + 1
        /\ ~is_db_open_ => recipe_id = 1
        /\ Call("getRecipeById", recipe_id,
                getRecipeById(IF is_db_open_ THEN files[db_path_] ELSE NoSchema,
                              is_db_open_, recipe_id, uninitialized), <<>>)
        /\ UNCHANGED <<files, is_db_open_, db_path_, txn, attached, ever_recipe_ids>>

NextAdd ==
    \/ \E db_path \in {"main.db"} : Open(db_path)
    \/ Close
    \/ AddRecipe(AddInputs, AddFaults, Clock)
    \/ DeleteRecipe(DeleteFaults)
    \/ EmptyDatabase(EmptyFaults)
    \/ GetRecipeById

SpecAdd == Init /\ [][NextAdd]_vars

\* The statements of addRecipe that follow BEGIN TRANSACTION.
AfterBegin == {"recipe", "ingredient", "tag", "instruction", "commit"}

\* C7: if addRecipe fails after BEGIN (the insert of the recipe row, a link of
\* an ingredient or tag, an instruction, or COMMIT fails), it returns -1 and the
\* collection holds exactly the rows it held before the call.
C7_FailedAddLeavesNothing ==
    [][(called' = "addRecipe" /\ last'.aux \in AfterBegin) =>
          /\ last'.ret = -1
          /\ files' = files]_vars

\* addRecipe gave up at the second instruction (an empty text), after the recipe
\* row, its ingredient link and its tag link had been inserted, in a collection
\* that already held a recipe.
C7_Witness ==
    /\ called = "addRecipe"
    /\ last.ret = -1
    /\ last.aux = "instruction"
    /\ Len(last.arg.instructions) = 2 /\ last.arg.instructions[2] = <<>>
    /\ Len(last.arg.ingredients) > 0 /\ Len(last.arg.tags) > 0
    /\ files[db_path_].recipes # {}

\* C8: for every recipe addRecipe accepts, getRecipeById on the returned
\* identity yields the same name, the same set of ingredient names, the same
\* set of tags and the same instruction texts in the same order.
C8_RoundTrip ==
    (called = "addRecipe" /\ last.ret > 0) =>
        \A uninitialized \in Uninitialized :
            LET got == getRecipeById(files[db_path_], is_db_open_, last.ret, uninitialized)
            IN /\ Len(got) = 1
               /\ got[1].name = last.arg.name
               /\ {i.name : i \in Range(got[1].ingredients)} =
                     {i.name : i \in Range(last.arg.ingredients)}
               /\ Range(got[1].tags) = Range(last.arg.tags)
               /\ got[1].instructions = last.arg.instructions

(***************************************************************************)
(* SpecSearch: one collection of a few recipes, searched with criteria     *)
(* that activate each filter alone and in combination.                     *)
(***************************************************************************)
SearchInputs ==
    { Recipe(<<"p">>, <<"m">>, << <<"a">> >>, << <<"a">>, <<"b">> >>, <<>>),
      [Recipe(<<"q">>, <<"m">>, << <<"a">>, <<"b">> >>, << <<"a">> >>, <<>>)
          EXCEPT !.is_favorite = TRUE, !.prep_time_minutes = 3],
      [Recipe(<<"p", " ", "q">>, <<"t">>, <<>>, <<>>, <<>>)
          EXCEPT !.source = <<"s">>, !.source_url = <<"u">>, !.cook_time_minutes = 3,
                 !.servings = 2] }

SearchClock == { <<"1", " ", "1">>, <<"2", " ", "1">> }

NoCriteria ==
    [exact_name |-> <<>>, prep_time_range |-> <<>>, cook_time_range |-> <<>>,
     servings_range |-> <<>>, is_favorite |-> FALSE, source |-> <<>>, source_url |-> <<>>,
     exact_author |-> <<>>, dates |-> <<>>, name |-> <<>>, keywords |-> <<>>,
     author |-> <<>>, ingredients |-> <<>>, tags |-> <<>>, exclude_tags |-> <<>>,
     exclude_ingredients |-> <<>>]

NameLists == { <<>>, << <<"a">> >>, << <<"a">>, <<"b">> >>, << <<"a">>, <<"a">> >> }
Ranges == { <<>>, <<1, 2>>, <<3>>, <<3, 3>>, <<1, 2, 3>> }

\* Criteria with one active field, and the combinations of the tag filters
\* with favourite, a range and a text match.
SearchCriteria ==
    { [NoCriteria EXCEPT !.tags = t, !.exclude_tags = xt, !.is_favorite = f,
                         !.prep_time_range = p] :
        t \in NameLists, xt \in {<<>>, << <<"b">> >>}, f \in BOOLEAN,
        p \in {<<>>, <<1, 2>>} }
    \cup { [NoCriteria EXCEPT !.ingredients = l, !.name = n] :
              l \in NameLists, n \in {<<>>, <<"p">>} }
    \cup { [NoCriteria EXCEPT !.prep_time_range = r] : r \in Ranges }
    \cup { [NoCriteria EXCEPT !.exclude_ingredients = l] : l \in NameLists }
    \cup { [NoCriteria EXCEPT !.cook_time_range = r] : r \in Ranges }
    \cup { [NoCriteria EXCEPT !.prep_time_range = <<1, 2>>, !.cook_time_range = r] :
              r \in {<<3>>, <<1, 2, 3>>} }
    \cup { [NoCriteria EXCEPT !.servings_range = r] : r \in Ranges }
    \cup { [NoCriteria EXCEPT !.exact_name = <<"p">>, !.exact_author = a] :
              a \in {<<>>, <<"m">>} }
    \cup { [NoCriteria EXCEPT !.source = <<"s">>, !.source_url = u] :
              u \in {<<>>, <<"u">>, <<"s">>} }
    \cup { [NoCriteria EXCEPT !.keywords = k, !.author = a] :
              k \in {<<>>, <<"q">>, <<"b", " ", "m">>}, a \in {<<>>, <<"T">>, <<"m">>} }
    \cup { [NoCriteria EXCEPT !.dates = d] :
              d \in { << <<"1">>, <<"1">> >>, << <<"1">>, <<"2">> >>, << <<"2">> >>,
                      << <<"2">>, <<>> >>, << <<"3">>, <<"3">> >> } }

Search ==
    \E criteria \in SearchCriteria :
        /\ ~is_db_open_ => criteria = NoCriteria
        /\ Call("search", criteria,
                search(IF is_db_open_ THEN files[db_path_] ELSE NoSchema,
                       is_db_open_, criteria), <<>>)
        /\ UNCHANGED <<files, is_db_open_, db_path_, txn, attached, ever_recipe_ids>>

NextSearch ==
    \/ \E db_path \in {"main.db"} : Open(db_path)
    \/ Close
    \/ AddRecipe(SearchInputs, {"none"}, SearchClock)
    \/ Search

SpecSearch == Init /\ [][NextSearch]_vars

\* The recipe is linked to every name of the list.
LinkedToAll(names, list) == Range(list) \subseteq names

\* The filters of the criteria, each active or not as section 4.1 says, all
\* satisfied by recipe r.
Satisfies(db, r, c) ==
    LET tag_names == Range(LinkedTagNames(db, r.recipe_id))
        ingredient_names == Range(LinkedIngredientNames(db, r.recipe_id))
        inRange(v, range) == Len(range) = 2 => (range[1] <= v /\ v <= range[2])
    IN /\ fts_match_query(c) # <<>> =>
             \E row \in db.search : row.rowid = r.recipe_id /\ MATCH(row, fts_match_query(c))
       /\ c.exact_name # <<>> => r.name = c.exact_name
       /\ c.exact_author # <<>> => r.author = c.exact_author
       /\ c.source # <<>> => r.source = c.source
       /\ c.source_url # <<>> => r.source_url = c.source_url
       /\ inRange(r.prep_time_minutes, c.prep_time_range)
       /\ inRange(r.cook_time_minutes, c.cook_time_range)
       /\ inRange(r.servings, c.servings_range)
       /\ c.is_favorite => r.is_favorite
       /\ (Len(c.dates) = 2 /\ c.dates[1] # <<>> /\ c.dates[2] # <<>>) =>
             TextBETWEEN(date(r.date_added), c.dates[1], c.dates[2])
       /\ LinkedToAll(tag_names, c.tags)
       /\ LinkedToAll(ingredient_names, c.ingredients)
       /\ tag_names \cap Range(c.exclude_tags) = {}
       /\ ingredient_names \cap Range(c.exclude_ingredients) = {}

\* C9: search returns exactly the recipes that satisfy every active filter of
\* the criteria at once, each identity once; criteria with no active field
\* return every recipe of the collection.
C9_SearchConjunction ==
    (called = "search" /\ is_db_open_) =>
        LET db == files[db_path_]
        IN /\ Range(last.ret) = {r.recipe_id : r \in {x \in db.recipes :
                                                        Satisfies(db, x, last.arg)}}
           /\ Len(last.ret) = Cardinality(Range(last.ret))
           /\ last.arg = NoCriteria => Range(last.ret) = RecipeIds(db)

\* C10: for a non-empty tags (ingredients) list and no other active filter,
\* search returns exactly the recipes linked to every name in the list.
C10_InclusionLists ==
    (called = "search" /\ is_db_open_) =>
        LET db == files[db_path_]
            c  == last.arg
        IN /\ (c.tags # <<>> /\ c = [NoCriteria EXCEPT !.tags = c.tags]) =>
                 Range(last.ret) =
                    {r.recipe_id : r \in {x \in db.recipes :
                        LinkedToAll(Range(LinkedTagNames(db, x.recipe_id)), c.tags)}}
           /\ (c.ingredients # <<>> /\ c = [NoCriteria EXCEPT !.ingredients = c.ingredients]) =>
                 Range(last.ret) =
                    {r.recipe_id : r \in {x \in db.recipes :
                        LinkedToAll(Range(LinkedIngredientNames(db, x.recipe_id)),
                                    c.ingredients)}}

(***************************************************************************)
(* Exclusion lists and ranges of search.                                   *)
(***************************************************************************)
\* The identities of the list whose recipes are linked to none of the names.
LinkedToNone(db, ids, names, Linked(_, _)) ==
    {id \in ids : Range(Linked(db, id)) \cap Range(names) = {}}

\* C11: a search with a non-empty exclude_tags (exclude_ingredients) list
\* returns no recipe linked to a listed name, whatever other filters are
\* active, and returns every recipe that the same criteria without the list
\* return and that is linked to none of the listed names.
C11_Exclusion ==
    (called = "search" /\ is_db_open_) =>
        LET db == files[db_path_]
            c  == last.arg
        IN /\ c.exclude_tags # <<>> =>
                 Range(last.ret) =
                    LinkedToNone(db, Range(search(db, TRUE, [c EXCEPT !.exclude_tags = <<>>])),
                                 c.exclude_tags, LinkedTagNames)
           /\ c.exclude_ingredients # <<>> =>
                 Range(last.ret) =
                    LinkedToNone(db, Range(search(db, TRUE,
                                                  [c EXCEPT !.exclude_ingredients = <<>>])),
                                 c.exclude_ingredients, LinkedIngredientNames)

\* A search with an inclusion list and an exclusion list that returned a
\* recipe and left out another one which the inclusion list alone returns.
C11_Witness ==
    /\ called = "search" /\ is_db_open_
    /\ last.arg.exclude_tags # <<>> /\ last.arg.tags # <<>>
    /\ last.ret # <<>>
    /\ Range(search(files[db_path_], TRUE, [last.arg EXCEPT !.exclude_tags = <<>>]))
          \ Range(last.ret) # {}

\* What a range field of the criteria does to a result: with two bounds it
\* keeps the recipes whose value lies in [lo, hi], ends included; with any
\* other number of bounds it keeps the result of the criteria without it.
RangeRestricts(db, ret, range, without, Value(_)) ==
    IF Len(range) = 2
    THEN Range(ret) = {r.recipe_id : r \in {x \in db.recipes :
                          /\ x.recipe_id \in Range(without)
                          /\ range[1] <= Value(x) /\ Value(x) <= range[2]}}
    ELSE ret = without

prep_time_minutes(r) == r.prep_time_minutes
cook_time_minutes(r) == r.cook_time_minutes
servings(r) == r.servings

\* C12: a prep-time, cook-time or servings range with exactly two bounds
\* [lo, hi] restricts the result to the recipes with lo <= value <= hi; with
\* 0, 1, 3 or more bounds the result is that of the criteria without the range.
C12_Ranges ==
    (called = "search" /\ is_db_open_) =>
        LET db == files[db_path_]
            c  == last.arg
        IN /\ RangeRestricts(db, last.ret, c.prep_time_range,
                             search(db, TRUE, [c EXCEPT !.prep_time_range = <<>>]),
                             prep_time_minutes)
           /\ RangeRestricts(db, last.ret, c.cook_time_range,
                             search(db, TRUE, [c EXCEPT !.cook_time_range = <<>>]),
                             cook_time_minutes)
           /\ RangeRestricts(db, last.ret, c.servings_range,
                             search(db, TRUE, [c EXCEPT !.servings_range = <<>>]),
                             servings)

\* A search with a two-bound prep-time range and a three-bound cook-time range
\* that returned a recipe whose prep time is the lower bound and left out a
\* recipe of the collection.
C12_Witness ==
    /\ called = "search" /\ is_db_open_
    /\ Len(last.arg.prep_time_range) = 2 /\ Len(last.arg.cook_time_range) = 3
    /\ \E r \in files[db_path_].recipes :
          r.recipe_id \in Range(last.ret) /\ r.prep_time_minutes = last.arg.prep_time_range[1]
    /\ RecipeIds(files[db_path_]) \ Range(last.ret) # {}

(***************************************************************************)
(* SpecStore: main.db built by addRecipe, deleteRecipe, emptyDatabase and  *)
(* merges of other.db, which is built by addRecipe.                        *)
(***************************************************************************)
NextStore ==
    \/ \E db_path \in Paths : Open(db_path)
    \/ Close
    \/ AddRecipe(MergeInputs, {"none"}, Clock)
    \/ (db_path_ \notin SourcePaths /\ DeleteRecipe({"none"}))
    \/ (db_path_ \notin SourcePaths /\ EmptyDatabase({"none"}))
    \/ MergeDatabase({"none"})

SpecStore == Init /\ [][NextStore]_vars

\* The rows of the collection that name recipe id: links and instructions.
RowsOfRecipe(db, id) ==
    {l \in db.recipe_ingredients : l.recipe_id = id}
        \cup {l \in db.recipe_tags : l.recipe_id = id}
        \cup {x \in db.instructions : x.recipe_id = id}

OwnersOfRows(db) ==
    {l.recipe_id : l \in db.recipe_ingredients} \cup {l.recipe_id : l \in db.recipe_tags}
        \cup {x.recipe_id : x \in db.instructions}

UnlinkedVocabulary(db) ==
    {i \in db.ingredients : \A l \in db.recipe_ingredients : l.ingredient_id # i.ingredient_id}
        \cup {t \in db.tags : \A l \in db.recipe_tags : l.tag_id # t.tag_id}

\* The ingredient and tag rows linked to a recipe other than id.
LinkedElsewhere(db, id) ==
    {i \in db.ingredients : \E l \in db.recipe_ingredients :
                                l.ingredient_id = i.ingredient_id /\ l.recipe_id # id}
        \cup {t \in db.tags : \E l \in db.recipe_tags :
                                l.tag_id = t.tag_id /\ l.recipe_id # id}

\* C14: after a successful deleteRecipe the collection holds no ingredient
\* row and no tag row linked to no recipe, and every ingredient and tag
\* linked to another recipe is kept.
C14_VocabularyCollected ==
    [][(called' = "deleteRecipe" /\ last'.ret = TRUE) =>
          /\ UnlinkedVocabulary(files'[db_path_]) = {}
          /\ LinkedElsewhere(files[db_path_], last'.arg)
                \subseteq files'[db_path_].ingredients \cup files'[db_path_].tags]_vars

(***************************************************************************)
(* Results of failing calls.                                               *)
(***************************************************************************)
\* C15: every addRecipe call that fails (no open collection, an empty recipe
\* name, a rolled back transaction) returns -1; a call that succeeds returns
\* the positive identity of the new recipe.
C15_AddRecipeResult ==
    called = "addRecipe" =>
        IF last.aux = "done"
        THEN last.ret > 0 /\ \E r \in files[db_path_].recipes :
                                 r.recipe_id = last.ret /\ r.name = last.arg.name
        ELSE last.ret = -1

\* What each operation returns when it fails.
FailureResult ==
    [addRecipe |-> -1, deleteRecipe |-> FALSE, mergeDatabase |-> FALSE,
     emptyDatabase |-> FALSE, search |-> <<>>, getRecipeById |-> <<>>]

\* C16: every operation invoked while no collection is open, addRecipe with
\* an empty name and deleteRecipe with an identity <= 0 return their failure
\* result, begin no transaction and change neither the stored data nor the
\* open/closed state of the handle.
C16_RejectedCalls ==
    [][(/\ called' \in DOMAIN FailureResult
        /\ \/ ~is_db_open_
           \/ called' = "addRecipe" /\ last'.arg.name = <<>>
           \/ called' = "deleteRecipe" /\ last'.arg <= 0) =>
          /\ last'.ret = FailureResult[called']
          /\ files' = files /\ txn' = txn
          /\ is_db_open_' = is_db_open_]_vars

C20_DeleteRecipeResult ==
    [][called' = "deleteRecipe" =>
          /\ last'.ret = TRUE =>
                /\ last'.arg \in RecipeIds(files[db_path_])
                /\ last'.arg \notin RecipeIds(files'[db_path_])
          /\ (last'.arg <= 0 \/ (is_db_open_ /\ last'.arg \notin RecipeIds(files[db_path_]))) =>
                last'.ret = FALSE /\ files' = files]_vars

(***************************************************************************)
(* Identities given by a merge.                                            *)
(***************************************************************************)
\* The rows of recipe_id_map classified as new.
NewRows(map) == {m \in map : m.is_duplicate = 0}

\* C18: in a successful merge every source recipe classified as new is
\* inserted into the target under its source identity + the largest recipe
\* identity the target held when the merge started (0 for an empty target),
\* and under no other identity.
C18_NewRecipeIdentity ==
    [][(MergeCall /\ last'.ret = TRUE) =>
        LET before == files[db_path_]
            after  == files'[db_path_]
            source == files[last'.arg]
            max_id == IF before.recipes = {} THEN 0
                      ELSE CHOOSE i \in RecipeIds(before) : \A j \in RecipeIds(before) : j <= i
        IN /\ \A m \in NewRows(last'.aux.map) :
                 /\ m.target_id = m.source_id + max_id
                 /\ \E s \in source.recipes, r \in after.recipes \ before.recipes :
                       /\ s.recipe_id = m.source_id /\ r.recipe_id = m.target_id
                       /\ r = [s EXCEPT !.recipe_id = m.target_id]
           /\ RecipeIds(after) \ RecipeIds(before) =
                 {m.source_id + max_id : m \in NewRows(last'.aux.map)}]_vars

\* A successful merge that inserted a new recipe into a target whose largest
\* identity is larger than the number of recipes it held: an identity below
\* it had been deleted.
C18_Witness ==
    /\ called = "mergeDatabase" /\ last.ret = TRUE
    /\ \E m \in NewRows(last.aux.map) :
          /\ m.target_id - m.source_id > 0
          /\ m.target_id \in RecipeIds(files[db_path_])
          /\ Cardinality({i \in RecipeIds(files[db_path_]) : i <= m.target_id - m.source_id})
                < m.target_id - m.source_id

(***************************************************************************)
(* SpecForeign: main.db is a file that another program wrote with foreign  *)
(* keys off, holding an instruction of a recipe it does not hold; open()   *)
(* takes any existing file.  other.db is built by addRecipe and merged.    *)
(***************************************************************************)
\* PRAGMA foreign_key_check: one row for each row of a child table whose
\* parent row does not exist.  merge_script runs it through sqlite3_exec with
\* no callback, so the rows are dropped and the statement succeeds.
foreign_key_check(db) ==
    {l \in db.recipe_ingredients :
        \/ l.recipe_id \notin RecipeIds(db)
        \/ l.ingredient_id \notin {i.ingredient_id : i \in db.ingredients}}
      \cup {l \in db.recipe_tags :
        \/ l.recipe_id \notin RecipeIds(db)
        \/ l.tag_id \notin {t.tag_id : t \in db.tags}}
      \cup {x \in db.instructions : x.recipe_id \notin RecipeIds(db)}

ForeignFile ==
    [NoSchema EXCEPT !.schema = TRUE,
                     !.instructions = {[recipe_id |-> 9, step_number |-> 1,
                                        instruction |-> <<"s">>]}]

InitForeign ==
    /\ files = [p \in Paths |-> IF p \in SourcePaths THEN NoSchema ELSE ForeignFile]
    /\ is_db_open_ = FALSE
    /\ db_path_ = ""
    /\ txn = NoTxn
    /\ attached = FALSE
    /\ ever_recipe_ids = [p \in Paths |-> {}]
    /\ called = "none"
    /\ last = NoCall

NextForeign ==
    \/ \E db_path \in Paths : Open(db_path)
    \/ Close
    \/ AddRecipe(MergeInputs, {"none"}, Clock)
    \/ MergeDatabase({"none"})

SpecForeign == InitForeign /\ [][NextForeign]_vars

\* C17: if after the replay step of a merge a link or an instruction of the
\* target references a recipe, ingredient or tag that does not exist,
\* mergeDatabase does not commit: it returns false and the target is left as
\* it was before the call.
C17_IntegrityCheckAborts ==
    [][(MergeCall /\ foreign_key_check(files'[db_path_]) # {}) =>
          /\ last'.ret = FALSE
          /\ files'[db_path_] = files[db_path_]]_vars

(***************************************************************************)
(* The source of a merge.                                                  *)
(***************************************************************************)
\* C21: after mergeDatabase returns, with success or with failure, the source
\* collection has not been modified and is no longer attached to the handle,
\* so that a further mergeDatabase call can attach a source again.
C21_SourceDetached ==
    [][MergeCall =>
          /\ files'[last'.arg] = files[last'.arg]
          /\ ~attached']_vars

(***************************************************************************)
(* The SQL text of a search.                                               *)
(***************************************************************************)
\* Which fields of the criteria are active, and how long its lists are.
Shape(c) ==
    [keywords |-> c.keywords # <<>>, name |-> c.name # <<>>, author |-> c.author # <<>>,
     exact_name |-> c.exact_name # <<>>, exact_author |-> c.exact_author # <<>>,
     prep_time_range |-> Len(c.prep_time_range), cook_time_range |-> Len(c.cook_time_range),
     servings_range |-> Len(c.servings_range), is_favorite |-> c.is_favorite,
     dates |-> Len(c.dates),
     dates_active |-> (Len(c.dates) = 2 /\ c.dates[1] # <<>> /\ c.dates[2] # <<>>),
     source |-> c.source # <<>>, source_url |-> c.source_url # <<>>,
     tags |-> Len(c.tags), exclude_tags |-> Len(c.exclude_tags),
     ingredients |-> Len(c.ingredients),
     exclude_ingredients |-> Len(c.exclude_ingredients)]

RECURSIVE Placeholders(_)
Placeholders(sql) ==
    IF sql = <<>> THEN 0 ELSE sql[1].placeholders + Placeholders(Tail(sql))

Translated(map, source_id) == {m.target_id : m \in {x \in map : x.source_id = source_id}}

\* The rows a replay of source recipe m.source_id gives target recipe
\* m.target_id: each link with its vocabulary identity translated, each
\* instruction as it is.
ReplayedIngredientLinks(source, m, imap) ==
    {[l EXCEPT !.recipe_id = m.target_id, !.ingredient_id = t] :
        <<l, t>> \in {p \in source.recipe_ingredients \X {x.target_id : x \in imap} :
                        p[1].recipe_id = m.source_id
                        /\ p[2] \in Translated(imap, p[1].ingredient_id)}}

ReplayedTagLinks(source, m, tmap) ==
    {[recipe_id |-> m.target_id, tag_id |-> t] :
        <<l, t>> \in {p \in source.recipe_tags \X {x.target_id : x \in tmap} :
                        p[1].recipe_id = m.source_id
                        /\ p[2] \in Translated(tmap, p[1].tag_id)}}

\* C23: in a successful merge the target recipe created for a source recipe
\* classified as new has the ingredient links of the source recipe with the
\* ingredient identities translated through the ingredient map and quantity,
\* unit, notes and optional flag unchanged, its tag links translated through
\* the tag map, and its instructions with the same step numbers and texts;
\* no source link is lost and none is added.
C23_ReplayOfNewRecipes ==
    [][(MergeCall /\ last'.ret = TRUE) =>
        LET after  == files'[db_path_]
            source == files[last'.arg]
            imap   == last'.aux.imap
            tmap   == last'.aux.tmap
        IN \A m \in NewRows(last'.aux.map) :
              /\ \A l \in source.recipe_ingredients :
                    l.recipe_id = m.source_id =>
                       Cardinality(Translated(imap, l.ingredient_id)) = 1
              /\ \A l \in source.recipe_tags :
                    l.recipe_id = m.source_id => Cardinality(Translated(tmap, l.tag_id)) = 1
              /\ {l \in after.recipe_ingredients : l.recipe_id = m.target_id} =
                    ReplayedIngredientLinks(source, m, imap)
              /\ Cardinality(ReplayedIngredientLinks(source, m, imap)) =
                    Cardinality({l \in source.recipe_ingredients : l.recipe_id = m.source_id})
              /\ {l \in after.recipe_tags : l.recipe_id = m.target_id} =
                    ReplayedTagLinks(source, m, tmap)
              /\ Cardinality(ReplayedTagLinks(source, m, tmap)) =
                    Cardinality({l \in source.recipe_tags : l.recipe_id = m.source_id})
              /\ {x \in after.instructions : x.recipe_id = m.target_id} =
                    {[x EXCEPT !.recipe_id = m.target_id] :
                        x \in {y \in source.instructions : y.recipe_id = m.source_id}}]_vars

\* A successful merge replayed a recipe with an instruction and with an
\* ingredient link whose ingredient has another identity in the target.
C23_Witness ==
    /\ called = "mergeDatabase" /\ last.ret = TRUE
    /\ \E m \in NewRows(last.aux.map) :
          /\ \E x \in files[db_path_].instructions : x.recipe_id = m.target_id
          /\ \E l \in files[last.arg].recipe_ingredients :
                /\ l.recipe_id = m.source_id
                /\ Translated(last.aux.imap, l.ingredient_id) # {l.ingredient_id}
                /\ \E k \in files[db_path_].recipe_ingredients :
                      k.recipe_id = m.target_id
                      /\ k.ingredient_id \in Translated(last.aux.imap, l.ingredient_id)

(***************************************************************************)
(* SpecDup: two collections built by addRecipe from recipes of one name    *)
(* and author, other.db merged into the open one.                          *)
(***************************************************************************)
\* Three recipes "p" of author "m": ingredients a, b; ingredients b, a with
\* another tag, instruction, quantity and servings; the one ingredient "a|b".
DupInputs ==
    { Recipe(<<"p">>, <<"m">>, << <<"a">>, <<"b">> >>, << <<"t">> >>, << <<"s">> >>),
      [Recipe(<<"p">>, <<"m">>, << <<"b">>, <<"a">> >>, << <<"u">> >>, << <<"x">> >>)
          EXCEPT !.servings = 2,
                 !.ingredients = [k \in 1..2 |-> [@[k] EXCEPT !.quantity = 2]]],
      Recipe(<<"p">>, <<"m">>, << <<"a", "|", "b">> >>, <<>>, <<>>) }

NextDup ==
    \/ \E db_path \in Paths : Open(db_path)
    \/ Close
    \/ AddRecipe(DupInputs, {"none"}, Clock)
    \/ MergeDatabase({"none"})

SpecDup == Init /\ [][NextDup]_vars

\* C24: for a source recipe classified as a duplicate of target recipe T, a
\* merge leaves unchanged the recipe fields of T, its ingredient links with
\* quantity, unit, notes and optional flag, and its instructions; the only
\* rows of T that change are tag links that are added.
C24_DuplicateTargetKept ==
    [][MergeCall =>
        LET before == files[db_path_]
            after  == files'[db_path_]
        IN \A m \in DuplicateRows(last'.aux.map) :
              /\ {r \in after.recipes : r.recipe_id = m.target_id} =
                    {r \in before.recipes : r.recipe_id = m.target_id}
              /\ {l \in after.recipe_ingredients : l.recipe_id = m.target_id} =
                    {l \in before.recipe_ingredients : l.recipe_id = m.target_id}
              /\ {x \in after.instructions : x.recipe_id = m.target_id} =
                    {x \in before.instructions : x.recipe_id = m.target_id}
              /\ {l \in before.recipe_tags : l.recipe_id = m.target_id}
                    \subseteq {l \in after.recipe_tags : l.recipe_id = m.target_id}]_vars

\* A successful merge added a tag link to a target recipe whose duplicate in
\* the source has other servings, quantities and instructions.
C24_Witness ==
    /\ called = "mergeDatabase" /\ last.ret = TRUE
    /\ \E m \in DuplicateRows(last.aux.map) :
          \E t \in files[db_path_].recipes, s \in files[last.arg].recipes :
             /\ t.recipe_id = m.target_id /\ s.recipe_id = m.source_id
             /\ t.servings # s.servings
             /\ Cardinality({l \in files[db_path_].recipe_tags :
                                l.recipe_id = m.target_id}) = 2

\* C25: the ingredient fingerprints the merge computes for two recipes are
\* equal if and only if the two recipes are linked to the same set of
\* ingredient names, whatever the order in which the links were inserted and
\* the identities of the ingredients in each collection.
C25_FingerprintIffSameNames ==
    \A p1 \in Paths, p2 \in Paths :
        \A f1 \in recipe_ingredients_set(files[p1]), f2 \in recipe_ingredients_set(files[p2]) :
            f1.ingredient_set = f2.ingredient_set <=>
                Range(LinkedIngredientNames(files[p1], f1.recipe_id)) =
                    Range(LinkedIngredientNames(files[p2], f2.recipe_id))

\* C26: deleteRecipe is all-or-nothing: it returns true and the recipe, its
\* links, its instructions and every vocabulary row left unreferenced are
\* gone, or it returns false and the collection is unchanged; when a
\* vocabulary clean-up statement fails the deletion is rolled back and false
\* is returned.
C26_DeleteAllOrNothing ==
    [][called' = "deleteRecipe" =>
          /\ \/ /\ last'.ret = TRUE
                /\ last'.arg \notin RecipeIds(files'[db_path_])
                /\ RowsOfRecipe(files'[db_path_], last'.arg) = {}
                /\ UnlinkedVocabulary(files'[db_path_]) = {}
             \/ /\ last'.ret = FALSE
                /\ files' = files
          /\ last'.aux \in {"clean_ingredients", "clean_tags"} =>
                last'.ret = FALSE /\ files' = files]_vars

(***************************************************************************)
(* The text index.                                                         *)
(***************************************************************************)
\* The names in a column of a search row: the parts between the '|'.
NamesIn(column) == IF column = Null THEN {} ELSE Range(splitString(column, "|"))

\* The text index of the collection has one entry for each recipe and no
\* other, and the ingredient and tag names of an entry are those linked to
\* its recipe.
IndexInSync(db) ==
    /\ {s.rowid : s \in db.search} = RecipeIds(db)
    /\ Cardinality(db.search) = Cardinality(db.recipes)
    /\ \A s \in db.search :
          /\ NamesIn(s.ingredients) = Range(LinkedIngredientNames(db, s.rowid))
          /\ NamesIn(s.tags) = Range(LinkedTagNames(db, s.rowid))
          /\ \E r \in db.recipes : r.recipe_id = s.rowid /\ r.name = s.name

(***************************************************************************)
(* SpecIndex: main.db built by addRecipe, deleteRecipe, emptyDatabase and  *)
(* merges of other.db; one of the recipes has a name that is not made of   *)
(* letters, digits and blanks only.                                        *)
(***************************************************************************)
IndexInputs ==
    { Recipe(<<"p", " ", "q">>, <<"m">>, << <<"a">> >>, << <<"t">> >>, << <<"s">> >>),
      Recipe(<<"a", "|", "b">>, <<"m">>, << <<"b">> >>, <<>>, <<>>) }

NextIndex ==
    \/ \E db_path \in Paths : Open(db_path)
    \/ Close
    \/ AddRecipe(IndexInputs, {"none"}, Clock)
    \/ (db_path_ \notin SourcePaths /\ DeleteRecipe({"none"}))
    \/ (db_path_ \notin SourcePaths /\ EmptyDatabase({"none"}))
    \/ MergeDatabase({"none"})

SpecIndex == Init /\ [][NextIndex]_vars

\* C27: in every state reached through addRecipe, deleteRecipe,
\* mergeDatabase and emptyDatabase the text index holds exactly one entry for
\* each existing recipe and none for a recipe that no longer exists, with
\* exactly the ingredient and tag names linked to the recipe; a recipe
\* replayed by a merge is found by a keyword search on its name.
C27_TextIndex ==
    /\ \A p \in Paths : IndexInSync(files[p])
    /\ (called = "mergeDatabase" /\ last.ret = TRUE) =>
          \A m \in NewRows(last.aux.map) :
             \A r \in files[db_path_].recipes :
                r.recipe_id = m.target_id =>
                   m.target_id \in Range(search(files[db_path_], TRUE,
                                                [NoCriteria EXCEPT !.keywords = r.name]))

\* The first part of C27 alone.
IndexInSyncEverywhere == \A p \in Paths : IndexInSync(files[p])

(***************************************************************************)
(* Transactions.                                                           *)
(***************************************************************************)
\* C28: after any public operation on an open handle returns (addRecipe,
\* deleteRecipe, mergeDatabase, emptyDatabase, search, getRecipeById), with
\* success or with failure at any step, no transaction is left open on the
\* connection.
C28_NoTransactionLeftOpen ==
    (is_db_open_ /\ called \in DOMAIN FailureResult) => ~txn.open

(***************************************************************************)
(* Identities of recipes over the life of a collection.                    *)
(***************************************************************************)
\* The identities a call gives to recipes the open collection did not hold
\* before the call.
AssignedIds == RecipeIds(files'[db_path_]) \ RecipeIds(files[db_path_])

\* C29: across addRecipe, deleteRecipe and mergeDatabase calls on one
\* collection, an identity that once denoted a recipe is never assigned again
\* to another recipe, neither by addRecipe nor by the identity offset of a
\* merge.
C29_IdentityNeverReused ==
    [][(is_db_open_ /\ called' \in {"addRecipe", "mergeDatabase"})
        => AssignedIds \cap ever_recipe_ids[db_path_] = {}]_vars

\* The same for addRecipe alone.
C29_AddNeverReuses ==
    [][(is_db_open_ /\ called' = "addRecipe")
        => AssignedIds \cap ever_recipe_ids[db_path_] = {}]_vars

(***************************************************************************)
(* Merging the same source twice.                                          *)
(***************************************************************************)
\* Every recipe of the collection has an author and at least one ingredient.
WellIdentified(db) ==
    \A r \in db.recipes :
        /\ r.author # <<>>
        /\ \E l \in db.recipe_ingredients : l.recipe_id = r.recipe_id

\* The recipes, vocabulary, links and instructions of a collection.
Content(db) ==
    <<db.recipes, db.ingredients, db.tags, db.recipe_ingredients,
      db.recipe_tags, db.instructions>>

\* A step that merges again the source that the call before it merged with
\* success.
SecondMerge ==
    /\ called = "mergeDatabase"
    /\ last.ret = TRUE
    /\ MergeCall
    /\ last'.arg = last.arg
    /\ WellIdentified(files[last'.arg])

\* No recipe of the collection has the name, the author and the ingredient
\* names of another of its recipes.
NoTwins(db) ==
    \A r1, r2 \in db.recipes :
        (/\ r1.recipe_id # r2.recipe_id
         /\ r1.name = r2.name
         /\ r1.author = r2.author)
        => {f.ingredient_set : f \in {g \in recipe_ingredients_set(db) : g.recipe_id = r1.recipe_id}}
           # {f.ingredient_set : f \in {g \in recipe_ingredients_set(db) : g.recipe_id = r2.recipe_id}}

\* C30: if every recipe of the source has at least one ingredient and a
\* non-empty author, merging the same unmodified source twice in succession
\* succeeds both times and the second merge adds no recipe, no vocabulary row
\* and no link to the target.
C30_MergeIdempotent ==
    [][SecondMerge
        => /\ last'.ret = TRUE
           /\ Content(files'[db_path_]) = Content(files[db_path_])]_vars

\* The same for a source in which no two recipes are duplicates of each other.
C30_MergeIdempotentNoTwins ==
    [][(SecondMerge /\ NoTwins(files[last'.arg]))
        => /\ last'.ret = TRUE
           /\ Content(files'[db_path_]) = Content(files[db_path_])]_vars

====
